---- MODULE Spec2Model ----
(***************************************************************************)
(* A model of the cryptography-basics scripts: the XOR cipher and the toy  *)
(* RSA of chapter 2, the hash and the digital signatures of chapter 4, the *)
(* Diffie-Hellman exchange, the modular-arithmetic helpers, the            *)
(* authenticated encryption of chapter 10, the RSA cryptosystem and the    *)
(* Merkle tree of chapter-11.ts, the elliptic-curve (ECDH) operations, the  *)
(* Yates shuffle, the zero-knowledge protocol, the brute-force discrete    *)
(* logarithm and the TLS handshake simulation of chapter-15.ts.            *)
(* Every script is a program of its own and has a specification of its own *)
(* over its own variables; the variables of the other scripts stay at      *)
(* their idle values.                                                      *)
(***************************************************************************)
EXTENDS Integers, Sequences, FiniteSets

VARIABLES
    \* chapter-2.ts, the asymmetric key example
    rsaPc, asymmetricMessage, publicKey, privateKey,
    asymmetricCiphertext, asymmetricDecrypted,
    \* the Diffie-Hellman script: a call of diffieHellmanExchange(p, g, a, b)
    dhPc, public_p, public_g, dh_a, dh_b, result,
    \* the modular-arithmetic script: a call of modularExponentiation
    mpPc, base_g, exponent_a, modulus_p, diffieHellmanExample,
    \* the ECDH script: a call of modularInverse(n, p)
    invPc, inv_n, inv_p, invOutcome, invValue,
    \* the ECDH script: a call of addPoints(P, Q)
    addPc, add_P, add_Q, add_R,
    \* the ECDH script: a call of scalarMultiply(k, P) on a received point
    smPc, sm_k, sm_P, smOutcome, smValue,
    \* the ECDH script: the exchange between Alice and Bob
    ecdhPc, private_a, private_b, public_A, public_B,
    sharedSecretAlice, sharedSecretBob,
    \* the modular-arithmetic script: a call of modulo(a, n)
    modPc, mod_a, mod_n, modResult,
    \* chapter-4.ts: signing a message and verifying the signature
    \* (signerPublicKey, signerPrivateKey are its alicePublicKey, alicePrivateKey)
    sigPc, originalMessage, signerPublicKey, signerPrivateKey, signature,
    isVerified, tamperedMessage, tamperedVerified,
    \* chapter-11.ts: a call of generateRSAKeyPair(p, q)
    rkPc, rk_p, rk_q, rkResult,
    \* chapter-11.ts: the RSA cryptosystem example (plainMessage is its message)
    cryptPc, keyPair, plainMessage, encrypted, decrypted,
    \* chapter-11.ts: the Merkle tree example (merkleTree is its { tree, root })
    mkPc, transactions, merkleTree, targetTransaction, targetIndex,
    merkleProof, isValid,
    \* chapter-11.ts: buildMerkleTree on two block lists
    mrPc, leftBlocks, rightBlocks, leftRoot, rightRoot,
    \* chapter-2.ts: the symmetric key example
    symPc, symmetricKey, symmetricMessage, symmetricCiphertext,
    symmetricDecrypted,
    \* chapter-10.ts: the encryption example (secretMessage is its originalMessage)
    aeadPc, secretMessage, keystream, encryptedMessage, decryptedMessage,
    tamperedData, tamperedOutcome,
    \* chapter-15.ts: the handshake simulation (serverStaticPrivateKey and
    \* serverStaticPublicKey are its serverPrivateKey and serverPublicKey,
    \* receivedMessage is its decryptedMessage, sessionKeystream the key
    \* stream of the cipher, consoleLog what it has logged so far)
    tlsPc, serverStaticPrivateKey, serverStaticPublicKey, clientSession,
    serverSession, messageToSend, sessionKeystream, encryptedPackage,
    receivedMessage, consoleLog,
    \* chapter-13.ts: a call of yatesShuffle(array), one pass of the loop a step
    ysPc, shuffleInput, shuffleArray, shuffle_i, shuffleChoices,
    shuffleSwaps,
    \* the zero-knowledge script: one run of the protocol
    zkPc, prover, verifier, response, isProofValid,
    \* the discrete-logarithm script: a call of solveDiscreteLogarithmBruteForce(g, y, p)
    dlPc, dl_g, dl_y, dl_p, dl_x,
    \* the hashing script: the three calls of simpleHash
    shPc, message1, hash1, message2, hash2, message3, hash3,
    \* chapter-11.ts: buildMerkleTree on a block list and on the list with its last block repeated
    padPc, padBlocks, padBuilt, padExtendedBlocks, padExtendedBuilt

rsaVars == <<rsaPc, asymmetricMessage, publicKey, privateKey,
             asymmetricCiphertext, asymmetricDecrypted>>
dhVars == <<dhPc, public_p, public_g, dh_a, dh_b, result>>
mpVars == <<mpPc, base_g, exponent_a, modulus_p, diffieHellmanExample>>
invVars == <<invPc, inv_n, inv_p, invOutcome, invValue>>
addVars == <<addPc, add_P, add_Q, add_R>>
smVars == <<smPc, sm_k, sm_P, smOutcome, smValue>>
ecdhVars == <<ecdhPc, private_a, private_b, public_A, public_B,
              sharedSecretAlice, sharedSecretBob>>
modVars == <<modPc, mod_a, mod_n, modResult>>
sigVars ==
    <<sigPc,
      originalMessage,
      signerPublicKey,
      signerPrivateKey,
      signature,
      isVerified,
      tamperedMessage,
      tamperedVerified>>
rkVars == <<rkPc, rk_p, rk_q, rkResult>>
cryptVars == <<cryptPc, keyPair, plainMessage, encrypted, decrypted>>
mkVars ==
    <<mkPc,
      transactions,
      merkleTree,
      targetTransaction,
      targetIndex,
      merkleProof,
      isValid>>
mrVars == <<mrPc, leftBlocks, rightBlocks, leftRoot, rightRoot>>
symVars ==
    <<symPc,
      symmetricKey,
      symmetricMessage,
      symmetricCiphertext,
      symmetricDecrypted>>
aeadVars ==
    <<aeadPc,
      secretMessage,
      keystream,
      encryptedMessage,
      decryptedMessage,
      tamperedData,
      tamperedOutcome>>
tlsVars ==
    <<tlsPc,
      serverStaticPrivateKey,
      serverStaticPublicKey,
      clientSession,
      serverSession,
      messageToSend,
      sessionKeystream,
      encryptedPackage,
      receivedMessage,
      consoleLog>>
ysVars ==
    <<ysPc,
      shuffleInput,
      shuffleArray,
      shuffle_i,
      shuffleChoices,
      shuffleSwaps>>
zkVars == <<zkPc, prover, verifier, response, isProofValid>>
dlVars == <<dlPc, dl_g, dl_y, dl_p, dl_x>>
shVars == <<shPc, message1, hash1, message2, hash2, message3, hash3>>
padVars == <<padPc, padBlocks, padBuilt, padExtendedBlocks, padExtendedBuilt>>

vars == <<rsaVars, dhVars, mpVars, invVars, addVars, smVars, ecdhVars,
         modVars,
         sigVars,
         rkVars,
         cryptVars,
         mkVars,
         mrVars,
         symVars,
         aeadVars,
         tlsVars,
         ysVars,
         zkVars,
         dlVars,
         shVars,
         padVars>>

\* A script that is not the one being run: its variables rest.
RSAIdle ==
    /\ rsaPc = "idle"
    /\ asymmetricMessage = "idle"
    /\ publicKey = "idle"
    /\ privateKey = "idle"
    /\ asymmetricCiphertext = "idle"
    /\ asymmetricDecrypted = "idle"

DHIdle ==
    /\ dhPc = "idle"
    /\ public_p = "idle"
    /\ public_g = "idle"
    /\ dh_a = "idle"
    /\ dh_b = "idle"
    /\ result = "idle"

MPIdle ==
    /\ mpPc = "idle"
    /\ base_g = "idle"
    /\ exponent_a = "idle"
    /\ modulus_p = "idle"
    /\ diffieHellmanExample = "idle"

INVIdle ==
    /\ invPc = "idle"
    /\ inv_n = "idle"
    /\ inv_p = "idle"
    /\ invOutcome = "idle"
    /\ invValue = "idle"

ADDIdle ==
    /\ addPc = "idle"
    /\ add_P = "idle"
    /\ add_Q = "idle"
    /\ add_R = "idle"

SMIdle ==
    /\ smPc = "idle"
    /\ sm_k = "idle"
    /\ sm_P = "idle"
    /\ smOutcome = "idle"
    /\ smValue = "idle"

ECDHIdle ==
    /\ ecdhPc = "idle"
    /\ private_a = "idle"
    /\ private_b = "idle"
    /\ public_A = "idle"
    /\ public_B = "idle"
    /\ sharedSecretAlice = "idle"
    /\ sharedSecretBob = "idle"

MODIdle ==
    /\ modPc = "idle"
    /\ mod_a = "idle"
    /\ mod_n = "idle"
    /\ modResult = "idle"

SIGIdle ==
    /\ sigPc = "idle"
    /\ originalMessage = "idle"
    /\ signerPublicKey = "idle"
    /\ signerPrivateKey = "idle"
    /\ signature = "idle"
    /\ isVerified = "idle"
    /\ tamperedMessage = "idle"
    /\ tamperedVerified = "idle"

RKIdle ==
    /\ rkPc = "idle"
    /\ rk_p = "idle"
    /\ rk_q = "idle"
    /\ rkResult = "idle"

CRYPTIdle ==
    /\ cryptPc = "idle"
    /\ keyPair = "idle"
    /\ plainMessage = "idle"
    /\ encrypted = "idle"
    /\ decrypted = "idle"

MKIdle ==
    /\ mkPc = "idle"
    /\ transactions = "idle"
    /\ merkleTree = "idle"
    /\ targetTransaction = "idle"
    /\ targetIndex = "idle"
    /\ merkleProof = "idle"
    /\ isValid = "idle"

MRIdle ==
    /\ mrPc = "idle"
    /\ leftBlocks = "idle"
    /\ rightBlocks = "idle"
    /\ leftRoot = "idle"
    /\ rightRoot = "idle"

SYMIdle ==
    /\ symPc = "idle"
    /\ symmetricKey = "idle"
    /\ symmetricMessage = "idle"
    /\ symmetricCiphertext = "idle"
    /\ symmetricDecrypted = "idle"

AEADIdle ==
    /\ aeadPc = "idle"
    /\ secretMessage = "idle"
    /\ keystream = "idle"
    /\ encryptedMessage = "idle"
    /\ decryptedMessage = "idle"
    /\ tamperedData = "idle"
    /\ tamperedOutcome = "idle"

TLSIdle ==
    /\ tlsPc = "idle"
    /\ serverStaticPrivateKey = "idle"
    /\ serverStaticPublicKey = "idle"
    /\ clientSession = "idle"
    /\ serverSession = "idle"
    /\ messageToSend = "idle"
    /\ sessionKeystream = "idle"
    /\ encryptedPackage = "idle"
    /\ receivedMessage = "idle"
    /\ consoleLog = "idle"

YSIdle ==
    /\ ysPc = "idle"
    /\ shuffleInput = "idle"
    /\ shuffleArray = "idle"
    /\ shuffle_i = "idle"
    /\ shuffleChoices = "idle"
    /\ shuffleSwaps = "idle"

ZKIdle ==
    /\ zkPc = "idle"
    /\ prover = "idle"
    /\ verifier = "idle"
    /\ response = "idle"
    /\ isProofValid = "idle"

DLIdle ==
    /\ dlPc = "idle"
    /\ dl_g = "idle"
    /\ dl_y = "idle"
    /\ dl_p = "idle"
    /\ dl_x = "idle"

SHIdle ==
    /\ shPc = "idle"
    /\ message1 = "idle"
    /\ hash1 = "idle"
    /\ message2 = "idle"
    /\ hash2 = "idle"
    /\ message3 = "idle"
    /\ hash3 = "idle"

PADIdle ==
    /\ padPc = "idle"
    /\ padBlocks = "idle"
    /\ padBuilt = "idle"
    /\ padExtendedBlocks = "idle"
    /\ padExtendedBuilt = "idle"

\* The state of the scripts other than script t at the start.
OthersIdle(t) ==
    /\ IF t = "rsa" THEN TRUE ELSE RSAIdle
    /\ IF t = "dh" THEN TRUE ELSE DHIdle
    /\ IF t = "mp" THEN TRUE ELSE MPIdle
    /\ IF t = "inv" THEN TRUE ELSE INVIdle
    /\ IF t = "add" THEN TRUE ELSE ADDIdle
    /\ IF t = "sm" THEN TRUE ELSE SMIdle
    /\ IF t = "ecdh" THEN TRUE ELSE ECDHIdle
    /\ IF t = "mod" THEN TRUE ELSE MODIdle
    /\ IF t = "sig" THEN TRUE ELSE SIGIdle
    /\ IF t = "rk" THEN TRUE ELSE RKIdle
    /\ IF t = "crypt" THEN TRUE ELSE CRYPTIdle
    /\ IF t = "mk" THEN TRUE ELSE MKIdle
    /\ IF t = "mr" THEN TRUE ELSE MRIdle
    /\ IF t = "sym" THEN TRUE ELSE SYMIdle
    /\ IF t = "aead" THEN TRUE ELSE AEADIdle
    /\ IF t = "tls" THEN TRUE ELSE TLSIdle
    /\ IF t = "ys" THEN TRUE ELSE YSIdle
    /\ IF t = "zk" THEN TRUE ELSE ZKIdle
    /\ IF t = "dl" THEN TRUE ELSE DLIdle
    /\ IF t = "sh" THEN TRUE ELSE SHIdle
    /\ IF t = "pad" THEN TRUE ELSE PADIdle

\* A step of script t leaves the other scripts alone.
OthersUnchanged(t) ==
    /\ IF t = "rsa" THEN TRUE ELSE UNCHANGED rsaVars
    /\ IF t = "dh" THEN TRUE ELSE UNCHANGED dhVars
    /\ IF t = "mp" THEN TRUE ELSE UNCHANGED mpVars
    /\ IF t = "inv" THEN TRUE ELSE UNCHANGED invVars
    /\ IF t = "add" THEN TRUE ELSE UNCHANGED addVars
    /\ IF t = "sm" THEN TRUE ELSE UNCHANGED smVars
    /\ IF t = "ecdh" THEN TRUE ELSE UNCHANGED ecdhVars
    /\ IF t = "mod" THEN TRUE ELSE UNCHANGED modVars
    /\ IF t = "sig" THEN TRUE ELSE UNCHANGED sigVars
    /\ IF t = "rk" THEN TRUE ELSE UNCHANGED rkVars
    /\ IF t = "crypt" THEN TRUE ELSE UNCHANGED cryptVars
    /\ IF t = "mk" THEN TRUE ELSE UNCHANGED mkVars
    /\ IF t = "mr" THEN TRUE ELSE UNCHANGED mrVars
    /\ IF t = "sym" THEN TRUE ELSE UNCHANGED symVars
    /\ IF t = "aead" THEN TRUE ELSE UNCHANGED aeadVars
    /\ IF t = "tls" THEN TRUE ELSE UNCHANGED tlsVars
    /\ IF t = "ys" THEN TRUE ELSE UNCHANGED ysVars
    /\ IF t = "zk" THEN TRUE ELSE UNCHANGED zkVars
    /\ IF t = "dl" THEN TRUE ELSE UNCHANGED dlVars
    /\ IF t = "sh" THEN TRUE ELSE UNCHANGED shVars
    /\ IF t = "pad" THEN TRUE ELSE UNCHANGED padVars

(***************************************************************************)
(* BigInt: JavaScript's arbitrary-precision integers.  A non-negative      *)
(* BigInt is the sequence of its base-LimbBase digits, least significant   *)
(* first, without leading zero digits (zero is the empty sequence).  Only  *)
(* modulo builds BigInts from negative numbers; it adds a sign to these.   *)
(***************************************************************************)
LimbBase == 10000

RECURSIVE BigInt(_)
\* BigInt(x) for a number x >= 0
BigInt(x) == IF x = 0 THEN <<>> ELSE <<x % LimbBase>> \o BigInt(x \div LimbBase)

RECURSIVE Number(_)
\* Number(x) for a BigInt x that fits a number
Number(x) ==
    IF x = <<>> THEN 0 ELSE Head(x) + LimbBase * Number(Tail(x))

\* x without its leading (most significant) zero digits
BigStrip(x) ==
    LET used == {i \in 1 .. Len(x) : x[i] # 0}
    IN IF used = {} THEN <<>>
       ELSE SubSeq(x, 1, CHOOSE i \in used : \A j \in used : j <= i)

RECURSIVE BigCarry(_)
\* digits that may exceed LimbBase - 1, brought back to proper digits: every
\* digit passes its excess to the next one until none has any
BigCarry(ds) ==
    IF \A i \in 1 .. Len(ds) : ds[i] < LimbBase
    THEN BigStrip(ds)
    ELSE BigCarry([i \in 1 .. Len(ds) + 1 |->
                     (IF i <= Len(ds) THEN ds[i] % LimbBase ELSE 0)
                     + (IF i > 1 THEN ds[i - 1] \div LimbBase ELSE 0)])

BigDigit(x, i) == IF 1 <= i /\ i <= Len(x) THEN x[i] ELSE 0

BigAdd(x, y) ==
    BigCarry([i \in 1 .. (IF Len(x) > Len(y) THEN Len(x) ELSE Len(y)) |->
                BigDigit(x, i) + BigDigit(y, i)])

\* x * m for one digit m
BigMulLimb(x, m) == BigCarry([i \in 1 .. Len(x) |-> x[i] * m])

\* x * LimbBase^k
BigShift(x, k) == IF x = <<>> THEN x ELSE [i \in 1 .. k |-> 0] \o x

RECURSIVE BigMul(_, _)
\* x * y, by the digits of y: y = lo + LimbBase^k * hi
BigMul(x, y) ==
    IF x = <<>> \/ y = <<>> THEN <<>>
    ELSE IF Len(y) = 1 THEN BigMulLimb(x, y[1])
    ELSE BigAdd(BigMul(x, SubSeq(y, 1, Len(y) \div 2)),
                BigShift(BigMul(x, SubSeq(y, Len(y) \div 2 + 1, Len(y))),
                         Len(y) \div 2))

BigSquare(x) == BigMul(x, x)

RECURSIVE BigPowBy(_, _)
\* x to the power e, exactly, for a BigInt x >= 0 and a number e >= 0
BigPowBy(x, e) ==
    IF e = 0 THEN <<1>>
    ELSE IF e % 2 = 0 THEN BigSquare(BigPowBy(x, e \div 2))
    ELSE BigMul(BigSquare(BigPowBy(x, e \div 2)), x)

\* x ** e for BigInts x >= 0 and e >= 0; 0n ** 0n is 1n and 0n ** e is 0n
\* for every other e
BigPow(x, e) ==
    IF x = <<>> THEN (IF e = <<>> THEN <<1>> ELSE <<>>)
    ELSE BigPowBy(x, Number(e))

RECURSIVE SmallPowRem(_, _, _)
\* b^k mod n on numbers small enough for their products
SmallPowRem(b, k, n) ==
    IF k = 0 THEN 1 % n
    ELSE IF k % 2 = 0 THEN (SmallPowRem(b, k \div 2, n) * SmallPowRem(b, k \div 2, n)) % n
    ELSE (((SmallPowRem(b, k \div 2, n) * SmallPowRem(b, k \div 2, n)) % n) * (b % n)) % n

RECURSIVE BigRemNumber(_, _)
\* the value of x % n, for a BigInt x >= 0 and a modulus of value n >= 1:
\* x = lo + LimbBase^k * hi
BigRemNumber(x, n) ==
    IF x = <<>> THEN 0
    ELSE IF Len(x) = 1 THEN x[1] % n
    ELSE (BigRemNumber(SubSeq(x, 1, Len(x) \div 2), n)
          + SmallPowRem(LimbBase, Len(x) \div 2, n)
            * BigRemNumber(SubSeq(x, Len(x) \div 2 + 1, Len(x)), n)) % n

\* x % n for BigInts x >= 0 and n >= 1
BigRem(x, n) == BigInt(BigRemNumber(x, Number(n)))

(***************************************************************************)
(* chapter-2.ts: the simplified RSA                                        *)
(***************************************************************************)
\* the locals of generateAsymmetricKeyPair
KeyGenLocals ==
    LET p == 17
        q == 19
        n == p * q
        phi_n == (p - 1) * (q - 1)
        e == 13
        d == 221
    IN [p |-> p, q |-> q, n |-> n, phi_n |-> phi_n, e |-> e, d |-> d]

\* its return value [publicKey, privateKey]
generateAsymmetricKeyPair ==
    <<[e |-> KeyGenLocals.e, n |-> KeyGenLocals.n],
      [d |-> KeyGenLocals.d, n |-> KeyGenLocals.n]>>

encryptAsymmetric(message, pubKey) ==
    LET msgBigInt == BigInt(message)
        eBigInt == BigInt(pubKey.e)
        nBigInt == BigInt(pubKey.n)
    IN Number(BigRem(BigPow(msgBigInt, eBigInt), nBigInt))

decryptAsymmetric(ciphertext, privKey) ==
    LET cipherBigInt == BigInt(ciphertext)
        dBigInt == BigInt(privKey.d)
        nBigInt == BigInt(privKey.n)
    IN Number(BigRem(BigPow(cipherBigInt, dBigInt), nBigInt))

\* The script runs with asymmetricMessage = 100; any message below n is taken.
RSAInit ==
    /\ rsaPc = "generate"
    /\ asymmetricMessage \in 0 .. (KeyGenLocals.n - 1)
    /\ publicKey = "unset"
    /\ privateKey = "unset"
    /\ asymmetricCiphertext = "unset"
    /\ asymmetricDecrypted = "unset"
    /\ OthersIdle("rsa")

RSAGenerate ==
    /\ rsaPc = "generate"
    /\ publicKey' = generateAsymmetricKeyPair[1]
    /\ privateKey' = generateAsymmetricKeyPair[2]
    /\ rsaPc' = "encrypt"
    /\ UNCHANGED <<asymmetricMessage, asymmetricCiphertext, asymmetricDecrypted>>
    /\ OthersUnchanged("rsa")

RSAEncrypt ==
    /\ rsaPc = "encrypt"
    /\ asymmetricCiphertext' = encryptAsymmetric(asymmetricMessage, publicKey)
    /\ rsaPc' = "decrypt"
    /\ UNCHANGED <<asymmetricMessage, publicKey, privateKey, asymmetricDecrypted>>
    /\ OthersUnchanged("rsa")

RSADecrypt ==
    /\ rsaPc = "decrypt"
    /\ asymmetricDecrypted' = decryptAsymmetric(asymmetricCiphertext, privateKey)
    /\ rsaPc' = "done"
    /\ UNCHANGED <<asymmetricMessage, publicKey, privateKey, asymmetricCiphertext>>
    /\ OthersUnchanged("rsa")

RSANext == RSAGenerate \/ RSAEncrypt \/ RSADecrypt

SpecRSA == RSAInit /\ [][RSANext]_vars

(***************************************************************************)
(* chapter-2.ts: the XOR cipher.  A string is the sequence of its UTF-16   *)
(* code units, numbers in 0 .. 65535.                                      *)
(***************************************************************************)
\* not-a-number: what charCodeAt returns outside the string and what i % 0
\* is; it stands apart from every code unit and every index
NaN == -1

RECURSIVE BitXor(_, _)
\* x ^ y for two non-negative integers
BitXor(x, y) ==
    IF x = 0 THEN y
    ELSE IF y = 0 THEN x
    ELSE (((x % 2) + (y % 2)) % 2) + 2 * BitXor(x \div 2, y \div 2)

\* s.charCodeAt(pos): a position that is NaN counts as 0
charCodeAt(s, pos) ==
    LET position == IF pos = NaN THEN 0 ELSE pos
    IN IF position < Len(s) THEN s[position + 1] ELSE NaN

\* the operand of ^ as a 32-bit integer: NaN becomes 0
ToInt32(x) == IF x = NaN THEN 0 ELSE x

\* String.fromCharCode(x): the one code unit x modulo 2^16
fromCharCode(x) == <<x % 65536>>

generateSymmetricKey ==
    <<115, 117, 112, 101, 114, 115, 101, 99, 114, 101, 116, 107, 101, 121,
      49, 50, 51>>

RECURSIVE encryptSymmetricLoop(_, _, _, _)
\* the for loop from index i on
encryptSymmetricLoop(message, key, i, ciphertext) ==
    IF ~(i < Len(message)) THEN ciphertext
    ELSE LET messageChar == charCodeAt(message, i)
             keyChar == charCodeAt(key, IF Len(key) = 0 THEN NaN ELSE i % Len(key))
         IN encryptSymmetricLoop(message, key, i + 1,
                ciphertext \o fromCharCode(BitXor(ToInt32(messageChar), ToInt32(keyChar))))

encryptSymmetric(message, key) == encryptSymmetricLoop(message, key, 0, <<>>)

decryptSymmetricReturnsCiphertext(ciphertext, key) == ciphertext

decryptSymmetric(ciphertext, key) == encryptSymmetric(ciphertext, key)

\* the messages: "Hello World!" and every string of at most MaxTextLen code
\* units out of CodeUnits; the keys: the one of generateSymmetricKey and
\* every string, the empty one included, of at most MaxKeyLen code units
MaxTextLen == 3
MaxKeyLen == 2
CodeUnits == {0, 72, 115, 65535}
SymmetricMessages ==
    {<<72, 101, 108, 108, 111, 32, 87, 111, 114, 108, 100, 33>>}
        \cup UNION {[1 .. n -> CodeUnits] : n \in 0 .. MaxTextLen}
SymmetricKeys ==
    {generateSymmetricKey} \cup UNION {[1 .. n -> CodeUnits] : n \in 0 .. MaxKeyLen}

SYMInit ==
    /\ symPc = "encrypt"
    /\ symmetricKey \in SymmetricKeys
    /\ symmetricMessage \in SymmetricMessages
    /\ symmetricCiphertext = "unset"
    /\ symmetricDecrypted = "unset"
    /\ OthersIdle("sym")

SYMEncrypt ==
    /\ symPc = "encrypt"
    /\ symmetricCiphertext' = encryptSymmetric(symmetricMessage, symmetricKey)
    /\ symPc' = "decrypt"
    /\ UNCHANGED <<symmetricKey, symmetricMessage, symmetricDecrypted>>
    /\ OthersUnchanged("sym")

SYMDecrypt ==
    /\ symPc = "decrypt"
    /\ symmetricDecrypted' = decryptSymmetric(symmetricCiphertext, symmetricKey)
    /\ symPc' = "done"
    /\ UNCHANGED <<symmetricKey, symmetricMessage, symmetricCiphertext>>
    /\ OthersUnchanged("sym")

SYMNext == SYMEncrypt \/ SYMDecrypt

SpecSymmetric == SYMInit /\ [][SYMNext]_vars

(***************************************************************************)
(* simpleHash (the hashing script) and chapter-4.ts: digital signatures    *)
(*                                                                         *)
(* A string is the sequence of its UTF-16 code units.  A 32-bit integer is *)
(* held as its two 16-bit halves, and the number simpleHash returns, which *)
(* can be as large as 2^32 - 1, as its base-LimbBase digits: BigInt() of   *)
(* it is then that same digit sequence.                                    *)
(***************************************************************************)
Half == 65536

simpleHashMixNoCarry(hash, prime, charCode) ==
    [hi |-> (hash.hi * prime) % Half, lo |-> (hash.lo * prime + charCode) % Half]

\* (hash * prime + charCode) | 0 for a 32-bit hash and a code unit
simpleHashMix(hash, prime, charCode) ==
    LET low == hash.lo * prime + charCode
    IN [hi |-> (hash.hi * prime + low \div Half) % Half, lo |-> low % Half]

RECURSIVE simpleHashLoop(_, _, _)
\* the for loop of simpleHash from index i on (i counts from 1)
simpleHashLoop(input, i, hash) ==
    IF i > Len(input) THEN hash
    ELSE simpleHashLoop(input, i + 1, simpleHashMix(hash, 31, input[i]))

\* hash >>> 0: the 32 bits read as a non-negative number
UnsignedShiftZero(hash) ==
    BigAdd(BigMul(BigInt(hash.hi), BigInt(Half)), BigInt(hash.lo))

simpleHash(input) ==
    UnsignedShiftZero(simpleHashLoop(input, 1, [hi |-> 0, lo |-> 0]))

signMessage(message, privKey) ==
    LET messageHash == simpleHash(message)
        hashBigInt == messageHash
        dBigInt == BigInt(privKey.d)
        nBigInt == BigInt(privKey.n)
    IN Number(BigRem(BigPow(hashBigInt, dBigInt), nBigInt))

verifySignature(message, sig, pubKey) ==
    LET signatureBigInt == BigInt(sig)
        eBigInt == BigInt(pubKey.e)
        nBigInt == BigInt(pubKey.n)
        decryptedHash == Number(BigRem(BigPow(signatureBigInt, eBigInt), nBigInt))
        newMessageHash == simpleHash(message)
    IN BigInt(decryptedHash) = newMessageHash

\* "Hello Bob, this is Alice." and "Hello Bob, this is Carol."
ScriptOriginalMessage ==
    <<72, 101, 108, 108, 111, 32, 66, 111, 98, 44, 32, 116, 104, 105, 115,
      32, 105, 115, 32, 65, 108, 105, 99, 101, 46>>
ScriptTamperedMessage ==
    <<72, 101, 108, 108, 111, 32, 66, 111, 98, 44, 32, 116, 104, 105, 115,
      32, 105, 115, 32, 67, 97, 114, 111, 108, 46>>

\* the messages: the two of the script and every string of at most
\* MaxMessageLen code units out of "A", "D", "X"
MaxMessageLen == 2
MessageAlphabet == {65, 68, 88}
Messages ==
    {ScriptOriginalMessage, ScriptTamperedMessage}
        \cup UNION {[1 .. n -> MessageAlphabet] : n \in 0 .. MaxMessageLen}

SIGInit ==
    /\ sigPc = "generate"
    /\ originalMessage \in Messages
    /\ signerPublicKey = "unset"
    /\ signerPrivateKey = "unset"
    /\ signature = "unset"
    /\ isVerified = "unset"
    /\ tamperedMessage = "unset"
    /\ tamperedVerified = "unset"
    /\ OthersIdle("sig")

SIGGenerate ==
    /\ sigPc = "generate"
    /\ signerPublicKey' = generateAsymmetricKeyPair[1]
    /\ signerPrivateKey' = generateAsymmetricKeyPair[2]
    /\ sigPc' = "sign"
    /\ UNCHANGED <<originalMessage, signature, isVerified, tamperedMessage,
                   tamperedVerified>>
    /\ OthersUnchanged("sig")

SIGSign ==
    /\ sigPc = "sign"
    /\ signature' = signMessage(originalMessage, signerPrivateKey)
    /\ sigPc' = "verify"
    /\ UNCHANGED <<originalMessage, signerPublicKey, signerPrivateKey,
                   isVerified, tamperedMessage, tamperedVerified>>
    /\ OthersUnchanged("sig")

SIGVerify ==
    /\ sigPc = "verify"
    /\ isVerified' = verifySignature(originalMessage, signature, signerPublicKey)
    /\ sigPc' = "tamper"
    /\ UNCHANGED <<originalMessage, signerPublicKey, signerPrivateKey,
                   signature, tamperedMessage, tamperedVerified>>
    /\ OthersUnchanged("sig")

\* scenario 2: some other message is checked against the same signature
SIGVerifyTampered ==
    /\ sigPc = "tamper"
    /\ \E m \in Messages :
        /\ tamperedMessage' = m
        /\ tamperedVerified' = verifySignature(m, signature, signerPublicKey)
    /\ sigPc' = "done"
    /\ UNCHANGED <<originalMessage, signerPublicKey, signerPrivateKey,
                   signature, isVerified>>
    /\ OthersUnchanged("sig")

SIGNext == SIGGenerate \/ SIGSign \/ SIGVerify \/ SIGVerifyTampered

SpecSignature == SIGInit /\ [][SIGNext]_vars

(***************************************************************************)
(* The hashing script: the example calls of simpleHash                     *)
(***************************************************************************)
\* "Hello, world!" and "hello, world!"
ScriptMessage1 == <<72, 101, 108, 108, 111, 44, 32, 119, 111, 114, 108, 100, 33>>
ScriptMessage2 == <<104, 101, 108, 108, 111, 44, 32, 119, 111, 114, 108, 100, 33>>

\* The first message: the example's, or a string of at most MaxHashLen code
\* units out of HashAlphabet.  The third message is the first one again.
MaxHashLen == 5
HashAlphabet == {0, 104, 65535}
HashInputs ==
    {ScriptMessage1} \cup UNION {[1 .. n -> HashAlphabet] : n \in 0 .. MaxHashLen}

SHInit ==
    /\ shPc = "hash1"
    /\ message1 \in HashInputs
    /\ message2 = ScriptMessage2
    /\ message3 = message1
    /\ hash1 = "unset"
    /\ hash2 = "unset"
    /\ hash3 = "unset"
    /\ OthersIdle("sh")

SHHash1 ==
    /\ shPc = "hash1"
    /\ hash1' = simpleHash(message1)
    /\ shPc' = "hash2"
    /\ UNCHANGED <<message1, message2, message3, hash2, hash3>>
    /\ OthersUnchanged("sh")

SHHash2 ==
    /\ shPc = "hash2"
    /\ hash2' = simpleHash(message2)
    /\ shPc' = "hash3"
    /\ UNCHANGED <<message1, message2, message3, hash1, hash3>>
    /\ OthersUnchanged("sh")

SHHash3 ==
    /\ shPc = "hash3"
    /\ hash3' = simpleHash(message3)
    /\ shPc' = "done"
    /\ UNCHANGED <<message1, message2, message3, hash1, hash2>>
    /\ OthersUnchanged("sh")

SHNext == SHHash1 \/ SHHash2 \/ SHHash3

SpecSimpleHash == SHInit /\ [][SHNext]_vars

(***************************************************************************)
(* The Diffie-Hellman script                                               *)
(***************************************************************************)
\* mutant: Bob raises the base g, not Alice's public key, to his secret
diffieHellmanExchangeBobUsesBase(p, g, a, b) ==
    LET pBigInt == BigInt(p)
        gBigInt == BigInt(g)
        aBigInt == BigInt(a)
        bBigInt == BigInt(b)
        alicePublicKey == BigRem(BigPow(gBigInt, aBigInt), pBigInt)
        bobPublicKey == BigRem(BigPow(gBigInt, bBigInt), pBigInt)
        S_alice == BigRem(BigPow(bobPublicKey, aBigInt), pBigInt)
        S_bob == BigRem(BigPow(gBigInt, bBigInt), pBigInt)
    IN [alicePublicKey |-> Number(alicePublicKey),
        bobPublicKey |-> Number(bobPublicKey),
        sharedSecretAlice |-> Number(S_alice),
        sharedSecretBob |-> Number(S_bob)]

diffieHellmanExchange(p, g, a, b) ==
    LET pBigInt == BigInt(p)
        gBigInt == BigInt(g)
        aBigInt == BigInt(a)
        bBigInt == BigInt(b)
        alicePublicKey == BigRem(BigPow(gBigInt, aBigInt), pBigInt)
        bobPublicKey == BigRem(BigPow(gBigInt, bBigInt), pBigInt)
        S_alice == BigRem(BigPow(bobPublicKey, aBigInt), pBigInt)
        S_bob == BigRem(BigPow(alicePublicKey, bBigInt), pBigInt)
    IN [alicePublicKey |-> Number(alicePublicKey),
        bobPublicKey |-> Number(bobPublicKey),
        sharedSecretAlice |-> Number(S_alice),
        sharedSecretBob |-> Number(S_bob)]

\* the bounds of the inputs drawn for the exchange
MaxPrime == 23
MaxSecret == 15

IsPrime(n) == n >= 2 /\ \A k \in 2 .. (n - 1) : n % k # 0

\* The script runs with p = 23, g = 5, a = 6, b = 15; any prime up to
\* MaxPrime, any base below it and any secrets up to MaxSecret are taken.
DHInit ==
    /\ dhPc = "call"
    /\ public_p \in {n \in 2 .. MaxPrime : IsPrime(n)}
    /\ public_g \in 1 .. (public_p - 1)
    /\ dh_a \in 0 .. MaxSecret
    /\ dh_b \in 0 .. MaxSecret
    /\ result = "unset"
    /\ OthersIdle("dh")

DHExchange ==
    /\ dhPc = "call"
    /\ result' = diffieHellmanExchange(public_p, public_g, dh_a, dh_b)
    /\ dhPc' = "done"
    /\ UNCHANGED <<public_p, public_g, dh_a, dh_b>>
    /\ OthersUnchanged("dh")

DHNext == DHExchange

SpecDH == DHInit /\ [][DHNext]_vars

(***************************************************************************)
(* The modular-arithmetic script: modularExponentiation                    *)
(***************************************************************************)
\* mutant: the remainder is taken of the exponent, not of the power
modularExponentiationOfRemainder(base, exponent, modulus) ==
    Number(BigPow(BigInt(base), BigRem(BigInt(exponent), BigInt(modulus))))

modularExponentiation(base, exponent, modulus) ==
    LET baseBigInt == BigInt(base)
        exponentBigInt == BigInt(exponent)
        modulusBigInt == BigInt(modulus)
        res == BigRem(BigPow(baseBigInt, exponentBigInt), modulusBigInt)
    IN Number(res)

\* the bounds of the inputs drawn for the call
MaxBase == 7
MaxExponent == 6
MaxModPow == 23

\* The script runs with base 5, exponent 6, modulus 23; any base up to
\* MaxBase, exponent up to MaxExponent and modulus from 1 to MaxModPow are taken.
MPInit ==
    /\ mpPc = "call"
    /\ base_g \in 0 .. MaxBase
    /\ exponent_a \in 0 .. MaxExponent
    /\ modulus_p \in 1 .. MaxModPow
    /\ diffieHellmanExample = "unset"
    /\ OthersIdle("mp")

MPCall ==
    /\ mpPc = "call"
    /\ diffieHellmanExample' = modularExponentiation(base_g, exponent_a, modulus_p)
    /\ mpPc' = "done"
    /\ UNCHANGED <<base_g, exponent_a, modulus_p>>
    /\ OthersUnchanged("mp")

MPNext == MPCall

SpecModPow == MPInit /\ [][MPNext]_vars

(***************************************************************************)
(* The modular-arithmetic script: modulo                                   *)
(***************************************************************************)
\* BigInt(x) for a number x of either sign: a sign and a magnitude
SignedBigInt(x) ==
    [negative |-> x < 0, magnitude |-> BigInt(IF x < 0 THEN -x ELSE x)]

\* x % n on BigInts: the division truncates towards zero, so the remainder
\* has the sign of the dividend x
SignedBigRem(x, n) ==
    LET r == BigRem(x.magnitude, n.magnitude)
    IN [negative |-> x.negative /\ r # <<>>, magnitude |-> r]

\* Number(x) for a signed BigInt x
SignedNumber(x) ==
    IF x.negative THEN -Number(x.magnitude) ELSE Number(x.magnitude)

moduloUnreduced(a, n) == SignedNumber(SignedBigInt(a))

modulo(a, n) ==
    LET aBigInt == SignedBigInt(a)
        nBigInt == SignedBigInt(n)
    IN SignedNumber(SignedBigRem(aBigInt, nBigInt))

\* the dividends are -MaxDividend .. MaxDividend, the moduli 1 .. MaxDivisor
MaxDividend == 17
MaxDivisor == 12

MODInit ==
    /\ modPc = "call"
    /\ mod_a \in (-MaxDividend) .. MaxDividend
    /\ mod_n \in 1 .. MaxDivisor
    /\ modResult = "unset"
    /\ OthersIdle("mod")

MODCall ==
    /\ modPc = "call"
    /\ modResult' = modulo(mod_a, mod_n)
    /\ modPc' = "done"
    /\ UNCHANGED <<mod_a, mod_n>>
    /\ OthersUnchanged("mod")

MODNext == MODCall

SpecModulo == MODInit /\ [][MODNext]_vars

(***************************************************************************)
(* chapter-11.ts: the RSA cryptosystem                                     *)
(*                                                                         *)
(* With d = 2753 the power ciphertext ** d has some 9,600 decimal digits.  *)
(* Here a power is held as its two operands, and % takes its remainder by  *)
(* squaring and multiplying remainders: BigInt arithmetic is exact, so     *)
(* the remainder of a product is the remainder of the product of the       *)
(* remainders, and the number is the one the code computes.                *)
(***************************************************************************)
\* x ** e for BigInts x >= 0 and e >= 0, held unevaluated
BigPowHeld(x, e) == [base |-> x, exponent |-> Number(e)]

RECURSIVE RemOfPower(_, _, _)
\* the remainder modulo n of r^k, for a number r < n and n^2 within range
RemOfPower(r, k, n) ==
    IF k = 0 THEN 1 % n
    ELSE LET half == RemOfPower(r, k \div 2, n)
             square == (half * half) % n
         IN IF k % 2 = 0 THEN square ELSE (square * r) % n

\* t % n for a held power t and a BigInt n >= 1
BigRemHeld(t, n) ==
    BigInt(RemOfPower(BigRemNumber(t.base, Number(n)), t.exponent, Number(n)))

generateRSAKeyPair(p, q) ==
    LET n == p * q
        phi_n == (p - 1) * (q - 1)
        e == 17
        d == 2753
    IN [publicKey |-> [e |-> e, n |-> n], privateKey |-> [d |-> d, n |-> n]]

encryptRSA(message, pubKey) ==
    LET msgBigInt == BigInt(message)
        eBigInt == BigInt(pubKey.e)
        nBigInt == BigInt(pubKey.n)
    IN Number(BigRemHeld(BigPowHeld(msgBigInt, eBigInt), nBigInt))

decryptRSAOtherExponent(ciphertext, privKey) ==
    Number(BigRemHeld(BigPowHeld(BigInt(ciphertext), BigInt(privKey.d - 1)),
                      BigInt(privKey.n)))

decryptRSA(ciphertext, privKey) ==
    LET cipherBigInt == BigInt(ciphertext)
        dBigInt == BigInt(privKey.d)
        nBigInt == BigInt(privKey.n)
    IN Number(BigRemHeld(BigPowHeld(cipherBigInt, dBigInt), nBigInt))

\* a call of generateRSAKeyPair on two distinct primes up to MaxKeyPrime
MaxKeyPrime == 61

RKInit ==
    /\ rkPc = "call"
    /\ rk_p \in {n \in 2 .. MaxKeyPrime : IsPrime(n)}
    /\ rk_q \in {n \in 2 .. MaxKeyPrime : IsPrime(n)}
    /\ rk_p # rk_q
    /\ rkResult = "unset"
    /\ OthersIdle("rk")

RKCall ==
    /\ rkPc = "call"
    /\ rkResult' = generateRSAKeyPair(rk_p, rk_q)
    /\ rkPc' = "done"
    /\ UNCHANGED <<rk_p, rk_q>>
    /\ OthersUnchanged("rk")

RKNext == RKCall

SpecRSAKeyPair == RKInit /\ [][RKNext]_vars

\* the example: the primes 61 and 53, and any message below the modulus
\* (the script's message is 123)
CRYPTInit ==
    /\ cryptPc = "generate"
    /\ keyPair = "unset"
    /\ plainMessage \in 0 .. (61 * 53 - 1)
    /\ encrypted = "unset"
    /\ decrypted = "unset"
    /\ OthersIdle("crypt")

CRYPTGenerate ==
    /\ cryptPc = "generate"
    /\ keyPair' = generateRSAKeyPair(61, 53)
    /\ cryptPc' = "encrypt"
    /\ UNCHANGED <<plainMessage, encrypted, decrypted>>
    /\ OthersUnchanged("crypt")

CRYPTEncrypt ==
    /\ cryptPc = "encrypt"
    /\ encrypted' = encryptRSA(plainMessage, keyPair.publicKey)
    /\ cryptPc' = "decrypt"
    /\ UNCHANGED <<keyPair, plainMessage, decrypted>>
    /\ OthersUnchanged("crypt")

CRYPTDecrypt ==
    /\ cryptPc = "decrypt"
    /\ decrypted' = decryptRSA(encrypted, keyPair.privateKey)
    /\ cryptPc' = "done"
    /\ UNCHANGED <<keyPair, plainMessage, encrypted>>
    /\ OthersUnchanged("crypt")

CRYPTNext == CRYPTGenerate \/ CRYPTEncrypt \/ CRYPTDecrypt

SpecRSACryptosystem == CRYPTInit /\ [][CRYPTNext]_vars

(***************************************************************************)
(* chapter-11.ts: the Merkle tree                                          *)
(*                                                                         *)
(* A string is a sequence of symbols.  A text symbol stands for the text   *)
(* of a data block.  SHA-256 is taken to be free of collisions: the digest *)
(* of a string is one symbol that stands for its 64 hexadecimal digits and *)
(* records the string that was hashed, so that two digests are equal       *)
(* exactly when the hashed strings are.                                    *)
(***************************************************************************)
Text(t) == <<[kind |-> "text", text |-> t, of |-> <<>>]>>

sha256(data) == <<[kind |-> "digest", text |-> "", of |-> data]>>

RECURSIVE buildMerkleTreeLoopDropsOdd(_)
buildMerkleTreeLoopDropsOdd(tree) ==
    LET currentLevel == tree[Len(tree)]
    IN IF ~(Len(currentLevel) > 1) THEN tree
       ELSE buildMerkleTreeLoopDropsOdd(
                Append(tree, [k \in 1 .. Len(currentLevel) \div 2 |->
                                sha256(currentLevel[2 * k - 1] \o currentLevel[2 * k])]))

RECURSIVE buildMerkleTreeLoopPadsCopy(_)
buildMerkleTreeLoopPadsCopy(tree) ==
    LET currentLevel == tree[Len(tree)]
        padded == IF Len(currentLevel) % 2 # 0
                  THEN Append(currentLevel, currentLevel[Len(currentLevel)])
                  ELSE currentLevel
        nextLevel == [k \in 1 .. Len(padded) \div 2 |->
                        sha256(padded[2 * k - 1] \o padded[2 * k])]
    IN IF ~(Len(currentLevel) > 1) THEN tree
       ELSE buildMerkleTreeLoopPadsCopy(Append(tree, nextLevel))

RECURSIVE buildMerkleTreeLoop(_)
\* the while loop; currentLevel is the last level of tree, the same array,
\* so the node pushed onto an odd level is pushed in the tree as well
buildMerkleTreeLoop(tree) ==
    LET currentLevel == tree[Len(tree)]
        padded == IF Len(currentLevel) % 2 # 0
                  THEN Append(currentLevel, currentLevel[Len(currentLevel)])
                  ELSE currentLevel
        nextLevel == [k \in 1 .. Len(padded) \div 2 |->
                        sha256(padded[2 * k - 1] \o padded[2 * k])]
    IN IF ~(Len(currentLevel) > 1) THEN tree
       ELSE buildMerkleTreeLoop(
                Append([tree EXCEPT ![Len(tree)] = padded], nextLevel))

buildMerkleTree(dataBlocks) ==
    IF Len(dataBlocks) = 0 THEN [tree |-> <<>>, root |-> <<>>]
    ELSE LET tree == buildMerkleTreeLoop(
                         <<[k \in 1 .. Len(dataBlocks) |-> sha256(dataBlocks[k])]>>)
         IN [tree |-> tree, root |-> tree[Len(tree)][1]]

RECURSIVE verifyMerkleProofLoopLeftOnly(_, _, _, _)
verifyMerkleProofLoopLeftOnly(currentHash, proof, i, index) ==
    IF ~(i <= Len(proof)) THEN currentHash
    ELSE verifyMerkleProofLoopLeftOnly(sha256(currentHash \o proof[i]),
                                       proof, i + 1, index \div 2)

RECURSIVE verifyMerkleProofLoop(_, _, _, _)
\* the for loop from the i-th proof hash on (i counts from 1)
verifyMerkleProofLoop(currentHash, proof, i, index) ==
    IF ~(i <= Len(proof)) THEN currentHash
    ELSE LET proofHash == proof[i]
         IN verifyMerkleProofLoop(
                IF index % 2 = 0 THEN sha256(currentHash \o proofHash)
                ELSE sha256(proofHash \o currentHash),
                proof, i + 1, index \div 2)

verifyMerkleProof(dataBlock, rootHash, proof, index) ==
    verifyMerkleProofLoop(sha256(dataBlock), proof, 1, index) = rootHash

\* the sibling hashes on the path from leaf index (counted from 0) to the
\* root, as the example picks them: [tree[0][0], tree[1][1]] for index 1
SiblingPath(tree, index) ==
    [l \in 1 .. (Len(tree) - 1) |->
        LET position == index \div (2 ^ (l - 1))
        IN tree[l][(IF position % 2 = 0 THEN position + 1 ELSE position - 1) + 1]]

\* The blocks are lists of 1 .. MaxBlocks texts out of BlockTexts.  What is
\* then offered to verifyMerkleProof: as data block a block text, the
\* altered text or two neighbouring nodes of the tree joined; as proof any
\* run of consecutive hashes of a sibling path; as index any leaf position.
MaxBlocks == 4
BlockTexts == {"pays $10", "pays $25"}
AlteredText == "pays $1000"

BlockLists == UNION {[1 .. n -> {Text(t) : t \in BlockTexts}] : n \in 1 .. MaxBlocks}

OfferedBlocks(tree) ==
    {Text(t) : t \in BlockTexts \cup {AlteredText}}
        \cup UNION {{tree[l][2 * k - 1] \o tree[l][2 * k] :
                        k \in 1 .. Len(tree[l]) \div 2} :
                    l \in 1 .. (Len(tree) - 1)}

OfferedProofs(tree) ==
    {SubSeq(SiblingPath(tree, j), s, t) :
        j \in 0 .. (Len(tree[1]) - 1),
        s \in 1 .. Len(tree), t \in 0 .. (Len(tree) - 1)}

MKInit ==
    /\ mkPc = "build"
    /\ transactions \in BlockLists
    /\ merkleTree = "unset"
    /\ targetTransaction = "unset"
    /\ targetIndex = "unset"
    /\ merkleProof = "unset"
    /\ isValid = "unset"
    /\ OthersIdle("mk")

MKBuild ==
    /\ mkPc = "build"
    /\ merkleTree' = buildMerkleTree(transactions)
    /\ mkPc' = "verify"
    /\ UNCHANGED <<transactions, targetTransaction, targetIndex, merkleProof,
                   isValid>>
    /\ OthersUnchanged("mk")

MKVerify ==
    /\ mkPc = "verify"
    /\ \E dataBlock \in OfferedBlocks(merkleTree.tree),
          proof \in OfferedProofs(merkleTree.tree),
          index \in 0 .. (Len(merkleTree.tree[1]) - 1) :
        /\ targetTransaction' = dataBlock
        /\ merkleProof' = proof
        /\ targetIndex' = index
        /\ isValid' = verifyMerkleProof(dataBlock, merkleTree.root, proof, index)
    /\ mkPc' = "done"
    /\ UNCHANGED <<transactions, merkleTree>>
    /\ OthersUnchanged("mk")

MKNext == MKBuild \/ MKVerify

SpecMerkle == MKInit /\ [][MKNext]_vars

\* buildMerkleTree on two block lists of the same length
MRInit ==
    /\ mrPc = "build"
    /\ leftBlocks \in BlockLists
    /\ rightBlocks \in BlockLists
    /\ Len(leftBlocks) = Len(rightBlocks)
    /\ leftRoot = "unset"
    /\ rightRoot = "unset"
    /\ OthersIdle("mr")

MRBuild ==
    /\ mrPc = "build"
    /\ leftRoot' = buildMerkleTree(leftBlocks).root
    /\ rightRoot' = buildMerkleTree(rightBlocks).root
    /\ mrPc' = "done"
    /\ UNCHANGED <<leftBlocks, rightBlocks>>
    /\ OthersUnchanged("mr")

MRNext == MRBuild

SpecMerkleRoots == MRInit /\ [][MRNext]_vars

\* buildMerkleTree on a block list, the empty one included, and then on the
\* list with a copy of its last block appended
PADInit ==
    /\ padPc = "build"
    /\ padBlocks \in UNION {[1 .. n -> {Text(t) : t \in BlockTexts \cup {AlteredText}}] :
                              n \in 0 .. MaxBlocks}
    /\ padExtendedBlocks =
           (IF padBlocks = <<>> THEN <<>>
            ELSE Append(padBlocks, padBlocks[Len(padBlocks)]))
    /\ padBuilt = "unset"
    /\ padExtendedBuilt = "unset"
    /\ OthersIdle("pad")

PADBuild ==
    /\ padPc = "build"
    /\ padBuilt' = buildMerkleTree(padBlocks)
    /\ padPc' = "buildExtended"
    /\ UNCHANGED <<padBlocks, padExtendedBlocks, padExtendedBuilt>>
    /\ OthersUnchanged("pad")

PADBuildExtended ==
    /\ padPc = "buildExtended"
    /\ padExtendedBuilt' = buildMerkleTree(padExtendedBlocks)
    /\ padPc' = "done"
    /\ UNCHANGED <<padBlocks, padExtendedBlocks, padBuilt>>
    /\ OthersUnchanged("pad")

PADNext == PADBuild \/ PADBuildExtended

SpecMerklePadding == PADInit /\ [][PADNext]_vars

(***************************************************************************)
(* chapter-10.ts: authenticated encryption with aes-256-gcm                *)
(*                                                                         *)
(* The cipher is Node's.  What is taken from it: GCM encrypts in counter   *)
(* mode, ciphertext byte = plaintext byte XOR key stream byte, where the   *)
(* key stream is fixed by the key and the iv and can be any bytes; the tag *)
(* authenticates the key, the iv and the ciphertext and is free of         *)
(* forgeries, so it is held as that triple, also where the script carries  *)
(* it as hexadecimal digits; final() of the decipher throws when the tag   *)
(* it was given is not the tag of what it was fed.                         *)
(***************************************************************************)
SHARED_SECRET_KEY == "crypto.randomBytes(32)"

HexDigits ==
    <<"0", "1", "2", "3", "4", "5", "6", "7", "8", "9", "a", "b", "c", "d", "e", "f">>

\* bytes.toString('hex')
ToHex(bytes) ==
    [i \in 1 .. 2 * Len(bytes) |->
        IF i % 2 = 1 THEN HexDigits[bytes[(i + 1) \div 2] \div 16 + 1]
        ELSE HexDigits[(bytes[i \div 2] % 16) + 1]]

HexValue(digit) == CHOOSE v \in 0 .. 15 : HexDigits[v + 1] = digit

\* Buffer.from(hex, 'hex') for a string of hexadecimal digits: one byte for
\* every full pair of digits
FromHex(hex) ==
    [i \in 1 .. Len(hex) \div 2 |->
        16 * HexValue(hex[2 * i - 1]) + HexValue(hex[2 * i])]

RECURSIVE Utf8Encode(_)
\* the UTF-8 bytes of a string of code units below 2048
Utf8Encode(s) ==
    IF s = <<>> THEN <<>>
    ELSE (IF Head(s) < 128 THEN <<Head(s)>>
          ELSE <<192 + Head(s) \div 64, 128 + (Head(s) % 64)>>) \o Utf8Encode(Tail(s))

RECURSIVE Utf8Decode(_)
\* the string of a byte sequence; 65533 is the replacement character for
\* what is not the UTF-8 form of a code unit below 2048
Utf8Decode(bytes) ==
    IF bytes = <<>> THEN <<>>
    ELSE IF bytes[1] < 128 THEN <<bytes[1]>> \o Utf8Decode(Tail(bytes))
    ELSE IF /\ bytes[1] \in 194 .. 223
            /\ Len(bytes) >= 2
            /\ bytes[2] \in 128 .. 191
    THEN <<(bytes[1] - 192) * 64 + (bytes[2] - 128)>> \o Utf8Decode(Tail(Tail(bytes)))
    ELSE <<65533>> \o Utf8Decode(Tail(bytes))

\* counter mode: every byte XOR the byte of the key stream at its place
GcmCrypt(bytes, stream) == [i \in 1 .. Len(bytes) |-> BitXor(bytes[i], stream[i])]

\* the authentication tag of a ciphertext under a key and an iv
GcmTag(sharedKey, iv, bytes) == [key |-> sharedKey, iv |-> iv, data |-> bytes]

\* encrypt, with the random iv and the key stream of (sharedKey, iv)
encrypt(plaintext, sharedKey, iv, stream) ==
    LET encryptedHex == ToHex(GcmCrypt(Utf8Encode(plaintext), stream))
        mac == GcmTag(sharedKey, iv, FromHex(encryptedHex))
    IN [iv |-> ToHex(iv), ciphertext |-> encryptedHex, mac |-> mac]

\* decrypt, with the key stream of (sharedKey, the iv of encryptedData): a
\* value returned or an Error thrown
decrypt(encryptedData, sharedKey, stream) ==
    LET iv == FromHex(encryptedData.iv)
        authTag == encryptedData.mac
        bytes == FromHex(encryptedData.ciphertext)
        decryptedText == Utf8Decode(GcmCrypt(bytes, stream))
    IN IF GcmTag(sharedKey, iv, bytes) = authTag
       THEN [threw |-> FALSE, value |-> decryptedText, message |-> ""]
       ELSE [threw |-> TRUE, value |-> <<>>, message |-> "Invalid MAC or key."]

\* encryptedMessage.ciphertext.slice(0, -2) + 'ff'
Tampered(encryptedData) ==
    [encryptedData EXCEPT
        !.ciphertext = SubSeq(encryptedData.ciphertext, 1,
                              Len(encryptedData.ciphertext) - 2) \o <<"f", "f">>]

\* The plaintexts are the strings of at most MaxPlainLen code units out of
\* "H" and "e" with an acute accent (two bytes in UTF-8); the iv is 16 equal
\* bytes out of IvBytes; every byte of the key stream is one of StreamBytes.
MaxPlainLen == 2
PlainUnits == {72, 233}
IvBytes == {0, 156}
StreamBytes == {0, 86, 183}

AEADInit ==
    /\ aeadPc = "encrypt"
    /\ secretMessage \in UNION {[1 .. n -> PlainUnits] : n \in 0 .. MaxPlainLen}
    /\ keystream = "unset"
    /\ encryptedMessage = "unset"
    /\ decryptedMessage = "unset"
    /\ tamperedData = "unset"
    /\ tamperedOutcome = "unset"
    /\ OthersIdle("aead")

\* Alice encrypts the message
AEADEncrypt ==
    /\ aeadPc = "encrypt"
    /\ \E ivByte \in IvBytes,
          stream \in [1 .. Len(Utf8Encode(secretMessage)) -> StreamBytes] :
        /\ keystream' = stream
        /\ encryptedMessage' =
              encrypt(secretMessage, SHARED_SECRET_KEY, [i \in 1 .. 16 |-> ivByte], stream)
    /\ aeadPc' = "decrypt"
    /\ UNCHANGED <<secretMessage, decryptedMessage, tamperedData, tamperedOutcome>>
    /\ OthersUnchanged("aead")

\* Bob decrypts it
AEADDecrypt ==
    /\ aeadPc = "decrypt"
    /\ decryptedMessage' = decrypt(encryptedMessage, SHARED_SECRET_KEY, keystream)
    /\ aeadPc' = "tamper"
    /\ UNCHANGED <<secretMessage, keystream, encryptedMessage, tamperedData,
                   tamperedOutcome>>
    /\ OthersUnchanged("aead")

\* the tampering attempt: the copy is built
AEADTamper ==
    /\ aeadPc = "tamper"
    /\ tamperedData' = Tampered(encryptedMessage)
    /\ aeadPc' = "decryptTampered"
    /\ UNCHANGED <<secretMessage, keystream, encryptedMessage, decryptedMessage,
                   tamperedOutcome>>
    /\ OthersUnchanged("aead")

\* and handed to decrypt
AEADDecryptTampered ==
    /\ aeadPc = "decryptTampered"
    /\ tamperedOutcome' = decrypt(tamperedData, SHARED_SECRET_KEY, keystream)
    /\ aeadPc' = "done"
    /\ UNCHANGED <<secretMessage, keystream, encryptedMessage, decryptedMessage,
                   tamperedData>>
    /\ OthersUnchanged("aead")

AEADNext == AEADEncrypt \/ AEADDecrypt \/ AEADTamper \/ AEADDecryptTampered

SpecAEAD == AEADInit /\ [][AEADNext]_vars

(***************************************************************************)
(* The discrete-logarithm script: solveDiscreteLogarithmBruteForce         *)
(***************************************************************************)
\* null: no number a script computes
null == -1

RECURSIVE solveLoopSkipsFirst(_, _, _, _)
solveLoopSkipsFirst(gBigInt, yBigInt, p, x) ==
    IF x + 1 < p
    THEN LET xBigInt == BigInt(x + 1)
         IN IF BigRem(BigPow(gBigInt, xBigInt), BigInt(p)) = yBigInt THEN x + 1
            ELSE solveLoopSkipsFirst(gBigInt, yBigInt, p, x + 1)
    ELSE null

RECURSIVE solveLoop(_, _, _, _)
\* for (let x = ...; x < p; x++) from x on
solveLoop(gBigInt, yBigInt, p, x) ==
    IF x < p
    THEN LET xBigInt == BigInt(x)
         IN IF BigRem(BigPow(gBigInt, xBigInt), BigInt(p)) = yBigInt THEN x
            ELSE solveLoop(gBigInt, yBigInt, p, x + 1)
    ELSE null

solveDiscreteLogarithmBruteForce(g, y, p) ==
    LET gBigInt == BigInt(g)
        yBigInt == BigInt(y)
    IN solveLoop(gBigInt, yBigInt, p, 1)

\* The calls: a modulus p of 2 .. MaxLogModulus (23 in the example), a base
\* g of 1 .. p - 1 and a target y of 0 .. p - 1.
MaxLogModulus == 23

DLInit ==
    /\ dlPc = "call"
    /\ dl_p \in 2 .. MaxLogModulus
    /\ dl_g \in 1 .. (dl_p - 1)
    /\ dl_y \in 0 .. (dl_p - 1)
    /\ dl_x = "unset"
    /\ OthersIdle("dl")

DLCall ==
    /\ dlPc = "call"
    /\ dl_x' = solveDiscreteLogarithmBruteForce(dl_g, dl_y, dl_p)
    /\ dlPc' = "done"
    /\ UNCHANGED <<dl_g, dl_y, dl_p>>
    /\ OthersUnchanged("dl")

DLNext == DLCall

SpecDiscreteLog == DLInit /\ [][DLNext]_vars

(***************************************************************************)
(* The ECDH script: modularInverse, addPoints, scalarMultiply              *)
(***************************************************************************)
\* a % n on JavaScript numbers (integers here), n # 0: the remainder has the
\* sign of a
JsRem(a, n) ==
    LET m == IF n < 0 THEN -n ELSE n
    IN IF a >= 0 THEN a % m ELSE -((-a) % m)

\* the curve y^2 = x^3 + ax + b (mod p) and its base point
p == 23
a == 1
b == 1
G == [x |-> 1, y |-> 7]
O == [x |-> null, y |-> null]

\* for (let x = 1; x < p; x++) if ((n * x) % p === 1) return x;  return 0:
\* the first x of 1 .. p-1, in increasing order, that passes the test, or 0
modularInverseLoop(n, pp) ==
    LET passing == {x \in 1 .. (pp - 1) : JsRem(n * x, pp) = 1}
    IN IF passing = {} THEN 0
       ELSE CHOOSE x \in passing : \A y \in passing : x <= y

\* mutant: n is not brought into 0 .. p-1 before the search
modularInverseUnnormalised(n, pp) == modularInverseLoop(n, pp)

modularInverse(n, pp) == modularInverseLoop(JsRem(JsRem(n, pp) + pp, pp), pp)

\* addPoints past its two tests for the point at infinity
addPointsOfCoordinates(P, Q) ==
    LET slope ==
            IF P.x = Q.x /\ P.y = Q.y
            THEN JsRem((3 * P.x * P.x + a) * modularInverse(2 * P.y, p), p)
            ELSE JsRem((Q.y - P.y) * modularInverse(Q.x - P.x, p), p)
        xR == JsRem(slope * slope - P.x - Q.x, p)
        yR == JsRem(slope * (P.x - xR) - P.y, p)
        finalX == JsRem(JsRem(xR, p) + p, p)
        finalY == JsRem(JsRem(yR, p) + p, p)
    IN [x |-> finalX, y |-> finalY]

\* mutant: the two identity tests return the wrong operand
addPointsSwappedReturns(P, Q) ==
    IF P.x = null THEN P
    ELSE IF Q.x = null THEN Q
    ELSE addPointsOfCoordinates(P, Q)

addPoints(P, Q) ==
    IF P.x = null THEN Q
    ELSE IF Q.x = null THEN P
    ELSE addPointsOfCoordinates(P, Q)

RECURSIVE scalarMultiplyLoop(_, _, _)
\* while (k > 0) { ... } return result
scalarMultiplyLoop(k, res, addend) ==
    IF k > 0
    THEN scalarMultiplyLoop(k \div 2,
                            IF JsRem(k, 2) = 1 THEN addPoints(res, addend) ELSE res,
                            addPoints(addend, addend))
    ELSE res

scalarMultiply(k, P) == scalarMultiplyLoop(k, O, P)

\* the bounds of the inputs drawn for the calls below
MaxNumber == 12
MaxModulus == 12
MaxScalar == 27

\* ---- a call of modularInverse(n, p) ----
INVInit ==
    /\ invPc = "call"
    /\ inv_n \in (0 - MaxNumber) .. MaxNumber
    /\ inv_p \in 1 .. MaxModulus
    /\ invOutcome = "unset"
    /\ invValue = "unset"
    /\ OthersIdle("inv")

\* modularInverse has no throw statement: every call returns a number
INVCall ==
    /\ invPc = "call"
    /\ invOutcome' = "returned"
    /\ invValue' = modularInverse(inv_n, inv_p)
    /\ invPc' = "done"
    /\ UNCHANGED <<inv_n, inv_p>>
    /\ OthersUnchanged("inv")

INVNext == INVCall

SpecInverse == INVInit /\ [][INVNext]_vars

\* ---- a call of addPoints(P, Q) on points of the curve ----
\* y^2 = x^3 + ax + b (mod p) for a point with coordinates; O is on the curve
IsOnCurve(P) ==
    \/ P = O
    \/ /\ P.x \in 0 .. (p - 1)
       /\ P.y \in 0 .. (p - 1)
       /\ (P.y * P.y) % p = (P.x * P.x * P.x + a * P.x + b) % p

FieldPoints == [x : 0 .. (p - 1), y : 0 .. (p - 1)]
CurvePoints == {P \in FieldPoints : IsOnCurve(P)} \cup {O}

ADDInit ==
    /\ addPc = "call"
    /\ add_P \in CurvePoints
    /\ add_Q \in CurvePoints
    /\ add_R = "unset"
    /\ OthersIdle("add")

ADDCall ==
    /\ addPc = "call"
    /\ add_R' = addPoints(add_P, add_Q)
    /\ addPc' = "done"
    /\ UNCHANGED <<add_P, add_Q>>
    /\ OthersUnchanged("add")

ADDNext == ADDCall

SpecAddPoints == ADDInit /\ [][ADDNext]_vars

\* ---- a call of scalarMultiply(k, P) on a point received from a peer ----
\* The peer's point is whatever arrives: any pair of coordinates, or O.
SMInit ==
    /\ smPc = "call"
    /\ sm_k \in 0 .. MaxScalar
    /\ sm_P \in FieldPoints \cup {O}
    /\ smOutcome = "unset"
    /\ smValue = "unset"
    /\ OthersIdle("sm")

\* scalarMultiply and addPoints test nothing about the point and have no
\* throw statement: every call returns a point
SMCall ==
    /\ smPc = "call"
    /\ smOutcome' = "returned"
    /\ smValue' = scalarMultiply(sm_k, sm_P)
    /\ smPc' = "done"
    /\ UNCHANGED <<sm_k, sm_P>>
    /\ OthersUnchanged("sm")

SMNext == SMCall

SpecScalarMultiply == SMInit /\ [][SMNext]_vars

\* ---- the ECDH exchange simulation ----
\* The script runs with private_a = 6 and private_b = 15; any scalars up to
\* MaxScalar are taken.
ECDHInit ==
    /\ ecdhPc = "alice"
    /\ private_a \in 0 .. MaxScalar
    /\ private_b \in 0 .. MaxScalar
    /\ public_A = "unset"
    /\ public_B = "unset"
    /\ sharedSecretAlice = "unset"
    /\ sharedSecretBob = "unset"
    /\ OthersIdle("ecdh")

ECDHAlicePublic ==
    /\ ecdhPc = "alice"
    /\ public_A' = scalarMultiply(private_a, G)
    /\ ecdhPc' = "bob"
    /\ UNCHANGED <<private_a, private_b, public_B, sharedSecretAlice, sharedSecretBob>>
    /\ OthersUnchanged("ecdh")

ECDHBobPublic ==
    /\ ecdhPc = "bob"
    /\ public_B' = scalarMultiply(private_b, G)
    /\ ecdhPc' = "sharedAlice"
    /\ UNCHANGED <<private_a, private_b, public_A, sharedSecretAlice, sharedSecretBob>>
    /\ OthersUnchanged("ecdh")

ECDHSharedAlice ==
    /\ ecdhPc = "sharedAlice"
    /\ sharedSecretAlice' = scalarMultiply(private_a, public_B)
    /\ ecdhPc' = "sharedBob"
    /\ UNCHANGED <<private_a, private_b, public_A, public_B, sharedSecretBob>>
    /\ OthersUnchanged("ecdh")

ECDHSharedBob ==
    /\ ecdhPc = "sharedBob"
    /\ sharedSecretBob' = scalarMultiply(private_b, public_A)
    /\ ecdhPc' = "done"
    /\ UNCHANGED <<private_a, private_b, public_A, public_B, sharedSecretAlice>>
    /\ OthersUnchanged("ecdh")

ECDHNext == ECDHAlicePublic \/ ECDHBobPublic \/ ECDHSharedAlice \/ ECDHSharedBob

SpecECDH == ECDHInit /\ [][ECDHNext]_vars

(***************************************************************************)
(* Reference definitions: the mathematics the properties are stated in     *)
(***************************************************************************)
\* b^e with 0^0 = 1
Power(bb, e) == IF e = 0 THEN 1 ELSE bb ^ e

RECURSIVE PowerMod(_, _, _)
\* b^e mod n from b^0 = 1, b^(2k) = (b^2)^k and b^(k+1) = b * b^k
PowerMod(bb, e, n) ==
    IF e = 0 THEN 1 % n
    ELSE IF e % 2 = 0 THEN PowerMod((bb * bb) % n, e \div 2, n)
    ELSE (bb * PowerMod(bb, e - 1, n)) % n

RECURSIVE Gcd(_, _)
Gcd(m, n) ==
    IF m < 0 THEN Gcd(0 - m, n)
    ELSE IF n = 0 THEN m
    ELSE Gcd(n, m % n)

\* the group law of the curve: O the identity, P + (-P) = O, chord and tangent
Negate(P) == IF P = O THEN O ELSE [x |-> P.x, y |-> (p - P.y) % p]

FieldInverse(n) == CHOOSE d \in 1 .. (p - 1) : (n * d) % p = 1

GroupAdd(P, Q) ==
    IF P = O THEN Q
    ELSE IF Q = O THEN P
    ELSE IF Q = Negate(P) THEN O
    ELSE LET lambda == IF P = Q
                       THEN ((3 * P.x * P.x + a) * FieldInverse((2 * P.y) % p)) % p
                       ELSE ((Q.y - P.y) * FieldInverse((Q.x - P.x) % p)) % p
             x3 == (lambda * lambda - P.x - Q.x) % p
         IN [x |-> x3, y |-> (lambda * (P.x - x3) - P.y) % p]

RECURSIVE GroupMultiple(_, _)
\* P added to itself k times
GroupMultiple(k, P) == IF k = 0 THEN O ELSE GroupAdd(GroupMultiple(k - 1, P), P)

\* the order of a point of the curve: the least k >= 1 with kP = O
OrderOf(P) ==
    CHOOSE k \in 1 .. Cardinality(CurvePoints) :
        /\ GroupMultiple(k, P) = O
        /\ \A j \in 1 .. (k - 1) : GroupMultiple(j, P) # O

OrderG == OrderOf(G)

(***************************************************************************)
(* chapter-15.ts: the TLS handshake simulation                             *)
(*                                                                         *)
(* The cryptography is Node's.  What is taken from it: an EC key pair is a *)
(* scalar k in 1 .. order-1 and the point k * base of a group of prime     *)
(* order, here the subgroup of order 7 of the curve above under its group  *)
(* law; diffieHellman is the x coordinate of the private scalar times the  *)
(* public point; a key exported as PEM and read back is the same key;      *)
(* hkdfSync and sign are functions of their arguments, held as these;      *)
(* aes-256-gcm is as in chapter-10.ts, on buffers instead of hexadecimal   *)
(* digits.                                                                 *)
(***************************************************************************)
EcdhBase == GroupMultiple(4, G)
EcdhPrivateKeys == 1 .. (OrderOf(EcdhBase) - 1)

\* generateKeyPairSync('ec', ...) when the random scalar is k
generateKeyPairSync(k) ==
    [privateKey |-> k, publicKey |-> GroupMultiple(k, EcdhBase)]

\* key.export({ format: 'pem', type: 'spki' }) and crypto.createPublicKey
ExportPem(point) == [pem |-> <<point.x, point.y>>]
createPublicKey(key) == [x |-> key.pem[1], y |-> key.pem[2]]

\* crypto.diffieHellman({ privateKey, publicKey })
diffieHellman(ownPrivateKey, peerPublicKey) ==
    GroupMultiple(ownPrivateKey, peerPublicKey).x

deriveKey(secret, salt, info, length) ==
    [hkdf |-> "sha256", secret |-> secret, salt |-> salt, info |-> info,
     length |-> length]

sign(algorithm, data, signingKey) ==
    [algorithm |-> algorithm, data |-> data, signer |-> signingKey]

ClientVerifiedLine == "[Client] Verified server's digital certificate and signature."
ServerSignedLine == "[Server] Signed handshake messages with its private key."

\* clientHandshake when its random scalar is k and its random salt is salt:
\* the session it returns and the line it logs
clientHandshake(serverPublicKey, k, salt) ==
    LET clientEphemeralKeys == generateKeyPairSync(k)
        clientPublicKey == ExportPem(clientEphemeralKeys.publicKey)
        sharedSecret == diffieHellman(clientEphemeralKeys.privateKey,
                                      createPublicKey(serverPublicKey))
        encryptionKey == deriveKey(sharedSecret, salt, "encryption key", 32)
        macKey == deriveKey(sharedSecret, salt, "mac key", 32)
    IN [session |-> [encryptionKey |-> encryptionKey,
                     macKey |-> macKey,
                     serverPublicKey |-> serverPublicKey,
                     clientPublicKey |-> clientPublicKey,
                     salt |-> salt],
        logged |-> <<ClientVerifiedLine>>]

serverHandshakeWithOwnKey(clientPublicKey, serverPrivateKey, serverPublicKey, salt) ==
    LET sharedSecret == diffieHellman(serverPrivateKey, createPublicKey(serverPublicKey))
    IN [session |-> [encryptionKey |-> deriveKey(sharedSecret, salt, "encryption key", 32),
                     macKey |-> deriveKey(sharedSecret, salt, "mac key", 32)],
        logged |-> <<ServerSignedLine>>]

\* serverHandshake: the session it returns and the line it logs; the
\* signature is made and not used
serverHandshake(clientPublicKey, serverPrivateKey, serverPublicKey, salt) ==
    LET sharedSecret == diffieHellman(serverPrivateKey, createPublicKey(clientPublicKey))
        encryptionKey == deriveKey(sharedSecret, salt, "encryption key", 32)
        macKey == deriveKey(sharedSecret, salt, "mac key", 32)
        handshakeMessages == "ClientHello + ServerHello..."
        handshakeSignature == sign("sha256", handshakeMessages, serverPrivateKey)
    IN [session |-> [encryptionKey |-> encryptionKey, macKey |-> macKey],
        logged |-> <<ServerSignedLine>>]

\* encryptMessage when the random iv is iv and the key stream of (key, iv)
\* is stream
encryptMessage(plaintext, key, iv, stream) ==
    LET encryptedBytes == GcmCrypt(Utf8Encode(plaintext), stream)
        mac == GcmTag(key, iv, encryptedBytes)
    IN [iv |-> iv, ciphertext |-> encryptedBytes, mac |-> mac]

\* decryptMessage, where stream is the key stream that belongs to a key and
\* an iv whose tag on the ciphertext is the tag given: the string returned,
\* or the error of final() thrown
decryptMessage(encryptedData, key, stream) ==
    IF GcmTag(key, encryptedData.iv, encryptedData.ciphertext) = encryptedData.mac
    THEN [threw |-> FALSE,
          value |-> Utf8Decode(GcmCrypt(encryptedData.ciphertext, stream))]
    ELSE [threw |-> TRUE, value |-> <<>>]

\* The messages are the strings of at most MaxSentLen code units out of
\* PlainUnits; the salt is 32 equal bytes and the iv 16 equal bytes out of
\* IvBytes; every byte of the key stream is one of SessionStreamBytes.
MaxSentLen == 2
SessionStreamBytes == {0, 183}

\* the server's key pair exists before the flow starts
TLSInit ==
    /\ tlsPc = "clientHandshake"
    /\ \E k \in EcdhPrivateKeys :
        /\ serverStaticPrivateKey = generateKeyPairSync(k).privateKey
        /\ serverStaticPublicKey = ExportPem(generateKeyPairSync(k).publicKey)
    /\ messageToSend \in UNION {[1 .. n -> PlainUnits] : n \in 0 .. MaxSentLen}
    /\ clientSession = "unset"
    /\ serverSession = "unset"
    /\ sessionKeystream = "unset"
    /\ encryptedPackage = "unset"
    /\ receivedMessage = "unset"
    /\ consoleLog = <<>>
    /\ OthersIdle("tls")

\* Phase 1
TLSClientHandshake ==
    /\ tlsPc = "clientHandshake"
    /\ \E k \in EcdhPrivateKeys, saltByte \in IvBytes :
        LET returned == clientHandshake(serverStaticPublicKey, k,
                                        [i \in 1 .. 32 |-> saltByte])
        IN /\ clientSession' = returned.session
           /\ consoleLog' = consoleLog \o returned.logged
    /\ tlsPc' = "serverHandshake"
    /\ UNCHANGED <<serverStaticPrivateKey, serverStaticPublicKey, serverSession,
                   messageToSend, sessionKeystream, encryptedPackage,
                   receivedMessage>>
    /\ OthersUnchanged("tls")

\* Phase 2
TLSServerHandshake ==
    /\ tlsPc = "serverHandshake"
    /\ LET returned == serverHandshake(clientSession.clientPublicKey,
                                       serverStaticPrivateKey,
                                       serverStaticPublicKey, clientSession.salt)
       IN /\ serverSession' = returned.session
          /\ consoleLog' = consoleLog \o returned.logged
    /\ tlsPc' = "encrypt"
    /\ UNCHANGED <<serverStaticPrivateKey, serverStaticPublicKey, clientSession,
                   messageToSend, sessionKeystream, encryptedPackage,
                   receivedMessage>>
    /\ OthersUnchanged("tls")

\* Phase 3: the client encrypts
TLSEncrypt ==
    /\ tlsPc = "encrypt"
    /\ \E ivByte \in IvBytes,
          stream \in [1 .. Len(Utf8Encode(messageToSend)) -> SessionStreamBytes] :
        /\ sessionKeystream' = stream
        /\ encryptedPackage' = encryptMessage(messageToSend, clientSession.encryptionKey,
                                              [i \in 1 .. 16 |-> ivByte], stream)
    /\ tlsPc' = "decrypt"
    /\ UNCHANGED <<serverStaticPrivateKey, serverStaticPublicKey, clientSession,
                   serverSession, messageToSend, receivedMessage, consoleLog>>
    /\ OthersUnchanged("tls")

\* Phase 3: the server decrypts
TLSDecrypt ==
    /\ tlsPc = "decrypt"
    /\ receivedMessage' = decryptMessage(encryptedPackage, serverSession.encryptionKey,
                                         sessionKeystream)
    /\ tlsPc' = "done"
    /\ UNCHANGED <<serverStaticPrivateKey, serverStaticPublicKey, clientSession,
                   serverSession, messageToSend, sessionKeystream,
                   encryptedPackage, consoleLog>>
    /\ OthersUnchanged("tls")

TLSNext == TLSClientHandshake \/ TLSServerHandshake \/ TLSEncrypt \/ TLSDecrypt

SpecTLS == TLSInit /\ [][TLSNext]_vars

(***************************************************************************)
(* chapter-13.ts: the Yates shuffle.  A JavaScript array is a sequence,    *)
(* its index k the place k + 1 of the sequence.  crypto.randomInt(max) may *)
(* return any integer from 0 to max - 1.                                   *)
(***************************************************************************)
randomIntNeverLast(max) == 0 .. (max - 2)

randomInt(max) == 0 .. (max - 1)

yatesShuffleSwapOverwrites(array, i, j) ==
    [k \in 1 .. Len(array) |-> IF k = i + 1 THEN array[j + 1] ELSE array[k]]

\* [array[i], array[j]] = [array[j], array[i]]
yatesShuffleSwap(array, i, j) ==
    [k \in 1 .. Len(array) |->
        IF k = i + 1 THEN array[j + 1]
        ELSE IF k = j + 1 THEN array[i + 1]
        ELSE array[k]]

RECURSIVE yatesShuffleLoop(_, _, _)
\* the loop from index i down, when randomInt returns choices[1], choices[2], ...
yatesShuffleLoop(array, i, choices) ==
    IF i > 0
    THEN yatesShuffleLoop(yatesShuffleSwap(array, i, Head(choices)), i - 1, Tail(choices))
    ELSE array

\* the array after yatesShuffle(array) when randomInt returns choices
yatesShuffle(array, choices) == yatesShuffleLoop(array, Len(array) - 1, choices)

RECURSIVE ChoicesFrom(_)
\* what randomInt can return during the loop from index i down
ChoicesFrom(i) ==
    IF i > 0
    THEN {<<j>> \o rest : j \in randomInt(i + 1), rest \in ChoicesFrom(i - 1)}
    ELSE {<<>>}

\* The arrays that are shuffled: of at most MaxShuffleLen elements, either the
\* numbers 1 .. n in order, as in the example, or with repeated elements.
MaxShuffleLen == 4
DistinctArrays(n) == {s \in [1 .. n -> 1 .. n] : \A k, l \in 1 .. n : s[k] = s[l] => k = l}
ShuffleArrays ==
    UNION {{[k \in 1 .. n |-> k]} \cup [1 .. n -> {1, 2}] : n \in 0 .. MaxShuffleLen}

YSInit ==
    /\ ysPc = "loop"
    /\ shuffleInput \in ShuffleArrays
    /\ shuffleArray = shuffleInput
    /\ shuffle_i = Len(shuffleInput) - 1
    /\ shuffleChoices = <<>>
    /\ shuffleSwaps = 0
    /\ OthersIdle("ys")

\* one pass of the loop
YSPass ==
    /\ ysPc = "loop"
    /\ shuffle_i > 0
    /\ \E j \in randomInt(shuffle_i + 1) :
        /\ shuffleArray' = yatesShuffleSwap(shuffleArray, shuffle_i, j)
        /\ shuffleChoices' = Append(shuffleChoices, j)
    /\ shuffleSwaps' = shuffleSwaps + 1
    /\ shuffle_i' = shuffle_i - 1
    /\ UNCHANGED <<ysPc, shuffleInput>>
    /\ OthersUnchanged("ys")

\* the loop condition fails
YSReturn ==
    /\ ysPc = "loop"
    /\ ~(shuffle_i > 0)
    /\ ysPc' = "done"
    /\ UNCHANGED <<shuffleInput, shuffleArray, shuffle_i, shuffleChoices, shuffleSwaps>>
    /\ OthersUnchanged("ys")

YSNext == YSPass \/ YSReturn

SpecShuffle == YSInit /\ [][YSNext]_vars

(***************************************************************************)
(* The zero-knowledge script.  The numbers stay below 2^53, where the      *)
(* arithmetic of JavaScript numbers is exact.                              *)
(***************************************************************************)
SECRET_X == 7
N == SECRET_X * SECRET_X

\* what proverCommit returns when crypto.randomInt(100) returns v
proverCommit(v) == [v |-> v, h |-> v * v]

proverResponseAddsSecret(challenge, v) ==
    IF challenge = 0 THEN v ELSE v + SECRET_X

proverResponse(challenge, v) ==
    IF challenge = 0 THEN v ELSE v * SECRET_X

\* what verifierChallenge can return
verifierChallenge == randomInt(2)

verifierVerify(h, challenge, r) ==
    IF challenge = 0
    THEN r * r = h
    ELSE r * r = h * N

ZKInit ==
    /\ zkPc = "commit"
    /\ prover = "unset"
    /\ verifier = "unset"
    /\ response = "unset"
    /\ isProofValid = "unset"
    /\ OthersIdle("zk")

ZKCommit ==
    /\ zkPc = "commit"
    /\ \E v \in randomInt(100) : prover' = proverCommit(v)
    /\ zkPc' = "challenge"
    /\ UNCHANGED <<verifier, response, isProofValid>>
    /\ OthersUnchanged("zk")

ZKChallenge ==
    /\ zkPc = "challenge"
    /\ verifier' \in verifierChallenge
    /\ zkPc' = "response"
    /\ UNCHANGED <<prover, response, isProofValid>>
    /\ OthersUnchanged("zk")

ZKResponse ==
    /\ zkPc = "response"
    /\ response' = proverResponse(verifier, prover.v)
    /\ zkPc' = "verify"
    /\ UNCHANGED <<prover, verifier, isProofValid>>
    /\ OthersUnchanged("zk")

ZKVerify ==
    /\ zkPc = "verify"
    /\ isProofValid' = verifierVerify(prover.h, verifier, response)
    /\ zkPc' = "done"
    /\ UNCHANGED <<prover, verifier, response>>
    /\ OthersUnchanged("zk")

ZKNext == ZKCommit \/ ZKChallenge \/ ZKResponse \/ ZKVerify

SpecZeroKnowledge == ZKInit /\ [][ZKNext]_vars

(***************************************************************************)
(* The properties                                                          *)
(***************************************************************************)
\* C1 (as claimed; the code violates it): decrypting the encryption of any
\* message M, 0 <= M < n, under the generated key pair gives M back.
C1_RoundTrip ==
    rsaPc = "done" => asymmetricDecrypted = asymmetricMessage

\* C2 (as claimed; the code violates it): the generated keys satisfy
\* e * d = 1 (mod phi(n)) with phi(n) = (p-1)(q-1) = 288, and d is
\* modularInverse(e, phi(n)).
C2_KeyInvariant ==
    rsaPc \in {"encrypt", "decrypt", "done"} =>
        /\ KeyGenLocals.phi_n = 288
        /\ publicKey.n = KeyGenLocals.p * KeyGenLocals.q
        /\ (privateKey.d * publicKey.e) % KeyGenLocals.phi_n = 1
        /\ modularInverse(publicKey.e, KeyGenLocals.phi_n) = privateKey.d

\* C3: the exchange gives both sides g^(a*b) mod p, with the public keys
\* g^a mod p and g^b mod p; for p=23, g=5, a=6, b=15: A=8, B=19, secret 2.
C3_Agreement ==
    dhPc = "done" =>
        /\ result.sharedSecretAlice = result.sharedSecretBob
        /\ result.sharedSecretAlice = PowerMod(public_g, dh_a * dh_b, public_p)
        /\ result.alicePublicKey = PowerMod(public_g, dh_a, public_p)
        /\ result.bobPublicKey = PowerMod(public_g, dh_b, public_p)
        /\ (public_p = 23 /\ public_g = 5 /\ dh_a = 6 /\ dh_b = 15) =>
              /\ result.alicePublicKey = 8
              /\ result.bobPublicKey = 19
              /\ result.sharedSecretAlice = 2
              /\ result.sharedSecretBob = 2

C3_Witness ==
    /\ dhPc = "done"
    /\ public_p = 23 /\ public_g = 5 /\ dh_a = 6 /\ dh_b = 15
    /\ result.sharedSecretAlice = 2
    /\ result.sharedSecretBob = 2

\* C4: modularExponentiation returns base^exponent mod n, in [0, n), for
\* base >= 0, exponent >= 0, n >= 1; exponent 0 gives 1 mod n (also for base
\* 0), base 0 with exponent > 0 gives 0; (5,6,23) -> 8, (0,0,23) -> 1,
\* (7,1,1) -> 0.
C4_ModPow ==
    mpPc = "done" =>
        /\ diffieHellmanExample \in 0 .. (modulus_p - 1)
        /\ diffieHellmanExample = Power(base_g, exponent_a) % modulus_p
        /\ exponent_a = 0 => diffieHellmanExample = 1 % modulus_p
        /\ (base_g = 0 /\ exponent_a > 0) => diffieHellmanExample = 0
        /\ (base_g = 5 /\ exponent_a = 6 /\ modulus_p = 23) => diffieHellmanExample = 8
        /\ (base_g = 0 /\ exponent_a = 0 /\ modulus_p = 23) => diffieHellmanExample = 1
        /\ (base_g = 7 /\ exponent_a = 1 /\ modulus_p = 1) => diffieHellmanExample = 0

C4_Witness ==
    /\ mpPc = "done"
    /\ base_g = 5 /\ exponent_a = 6 /\ modulus_p = 23
    /\ diffieHellmanExample = 8

\* C5: for a modulus n >= 2 and any integer a, negative ones included, with
\* gcd(a, n) = 1, modularInverse(a, n) returns the one d in [0, n) with
\* a * d = 1 (mod n).
C5_Inverse ==
    (invPc = "done" /\ inv_p >= 2 /\ Gcd(inv_n, inv_p) = 1) =>
        /\ invOutcome = "returned"
        /\ invValue \in 0 .. (inv_p - 1)
        /\ (inv_n * invValue) % inv_p = 1
        /\ \A d \in 0 .. (inv_p - 1) : (inv_n * d) % inv_p = 1 => d = invValue

C5_Witness ==
    /\ invPc = "done"
    /\ inv_n = 0 - 3 /\ inv_p = 7
    /\ invOutcome = "returned"
    /\ invValue = 2

\* C6 (as claimed; the code violates it): when gcd(a, n) # 1,
\* modularInverse(a, n) fails with NoInverseExists and returns no number.
C6_NoInverseFails ==
    (invPc = "done" /\ Gcd(inv_n, inv_p) # 1) => invOutcome = "NoInverseExists"

\* C7 (as claimed; the code violates it): for points P, Q of the curve with
\* P.x = Q.x and P.y # Q.y, addPoints(P, Q) is O; and addPoints(P, P) is O
\* when P.y = 0.
C7_InverseRule ==
    (/\ addPc = "done"
     /\ add_P # O /\ add_Q # O
     /\ add_P.x = add_Q.x
     /\ (add_P.y # add_Q.y \/ add_P.y = 0)) => add_R = O

\* C8: addPoints(P, O) = P and addPoints(O, P) = P for every point P of the
\* curve and for P = O; so addPoints(O, O) = O.
C8_Identity ==
    addPc = "done" =>
        /\ add_Q = O => add_R = add_P
        /\ add_P = O => add_R = add_Q
        /\ (add_P = O /\ add_Q = O) => add_R = O

C8_Witness ==
    /\ addPc = "done"
    /\ add_P = G /\ add_Q = O
    /\ add_R = G

\* C9 (as claimed; the code violates it): for scalars a, b below the order of
\* G, a(bG) = b(aG) = (a*b mod order)G.
C9_ECDHAgreement ==
    (ecdhPc = "done" /\ private_a < OrderG /\ private_b < OrderG) =>
        /\ sharedSecretAlice = sharedSecretBob
        /\ sharedSecretAlice = scalarMultiply((private_a * private_b) % OrderG, G)

\* C10 (as claimed; the code violates it): a received point that is not on
\* the curve is rejected with an error; no point is computed from it.
C10_OffCurveRejected ==
    (smPc = "done" /\ ~IsOnCurve(sm_P)) => smOutcome = "PointNotOnCurve"

C12_SignatureValid ==
    sigPc \in {"tamper", "done"} => isVerified = TRUE

\* C13: a signature does not verify against a message whose hash differs
\* from the hash of the message that was signed.
C13_TamperDetected ==
    (sigPc = "done" /\ simpleHash(tamperedMessage) # simpleHash(originalMessage))
        => tamperedVerified = FALSE

\* C14: with the keys of generateRSAKeyPair(61, 53), which are e = 17,
\* d = 2753, n = 3233, decrypting the encryption of a message below n gives
\* the message back.
C14_RoundTrip ==
    cryptPc = "done" =>
        /\ keyPair = [publicKey |-> [e |-> 17, n |-> 3233],
                      privateKey |-> [d |-> 2753, n |-> 3233]]
        /\ decrypted = plainMessage

\* the script's message 123 has been encrypted to 855 and decrypted
C14_Witness ==
    cryptPc = "done" /\ plainMessage = 123 /\ encrypted = 855 /\ decrypted = 123

\* C15: for every pair of distinct primes p, q the keys have
\* n = p * q, gcd(e, phi(n)) = 1 and (d * e) mod phi(n) = 1.
C15_KeyEquations ==
    rkPc = "done" =>
        LET phi == (rk_p - 1) * (rk_q - 1)
        IN /\ rkResult.publicKey.n = rk_p * rk_q
           /\ rkResult.privateKey.n = rk_p * rk_q
           /\ Gcd(rkResult.publicKey.e, phi) = 1
           /\ (rkResult.privateKey.d * rkResult.publicKey.e) % phi = 1

\* C16: for a non-empty block list, whatever its length, and an index i of
\* one of its blocks, verifyMerkleProof(blocks[i], root, proof, i) is true
\* when proof is the list of the sibling hashes on the path of leaf i.
C16_ProofComplete ==
    (/\ mkPc = "done"
     /\ targetIndex < Len(transactions)
     /\ targetTransaction = transactions[targetIndex + 1]
     /\ merkleProof = SiblingPath(merkleTree.tree, targetIndex))
        => isValid = TRUE

\* the last block of a list of three, whose sibling is the copy that the
\* odd level was padded with, has been verified with its sibling path
C16_Witness ==
    /\ mkPc = "done"
    /\ Len(transactions) = 3
    /\ targetIndex = 2
    /\ targetTransaction = transactions[3]
    /\ merkleProof = SiblingPath(merkleTree.tree, 2)
    /\ merkleProof[1] = sha256(transactions[3])
    /\ isValid = TRUE

\* C17: verifyMerkleProof is true only for a data block that is one of the
\* blocks the tree was built from, whatever the proof and the index.
C17_ProofSound ==
    (/\ mkPc = "done"
     /\ \A i \in 1 .. Len(transactions) : targetTransaction # transactions[i])
        => isValid = FALSE

\* C18: two block lists of the same length that differ in some position
\* have different roots.
C18_RootsDiffer ==
    (mrPc = "done" /\ leftBlocks # rightBlocks) => leftRoot # rightRoot

\* two lists of three blocks that differ in the last block only, the one
\* the odd level is padded with, have been built
C18_Witness ==
    /\ mrPc = "done"
    /\ Len(leftBlocks) = 3
    /\ SubSeq(leftBlocks, 1, 2) = SubSeq(rightBlocks, 1, 2)
    /\ leftBlocks[3] # rightBlocks[3]
    /\ leftRoot # rightRoot

\* C19: for every message and every key, decrypting the ciphertext with the
\* key gives the message back, and the ciphertext is as long as the message.
C19_XorRoundTrip ==
    symPc = "done" =>
        /\ symmetricDecrypted = symmetricMessage
        /\ Len(symmetricCiphertext) = Len(symmetricMessage)

\* "Hello World!" has gone through the key of generateSymmetricKey, which
\* changed every one of its code units, and a message longer than its key
\* has gone through a key of one code unit
C19_Witness ==
    /\ symPc = "done"
    /\ symmetricDecrypted = symmetricMessage
    /\ \/ /\ symmetricKey = generateSymmetricKey
          /\ Len(symmetricMessage) = 12
          /\ symmetricCiphertext[1] = 59
          /\ \A i \in 1 .. 12 : symmetricCiphertext[i] # symmetricMessage[i]
       \/ /\ Len(symmetricKey) = 1
          /\ Len(symmetricMessage) = 3
          /\ symmetricCiphertext # symmetricMessage

\* C20: decrypt of the tampered copy of a package that encrypt produced
\* throws Error('Invalid MAC or key.') and returns no plaintext.
C20_TamperRejected ==
    aeadPc = "done" =>
        /\ tamperedOutcome.threw = TRUE
        /\ tamperedOutcome.message = "Invalid MAC or key."

\* C21: after the two handshakes the client session and the server session
\* hold the same encryptionKey and the same macKey, and the server decrypts
\* what the client encrypted to the message that was sent.
C21_KeyAgreement ==
    /\ tlsPc \in {"encrypt", "decrypt", "done"} =>
          /\ clientSession.encryptionKey = serverSession.encryptionKey
          /\ clientSession.macKey = serverSession.macKey
    /\ tlsPc = "done" =>
          /\ receivedMessage.threw = FALSE
          /\ receivedMessage.value = messageToSend

\* a message of two code units, one of them of two bytes, has been sent
\* under a key stream that changed it and been decrypted by the server, the
\* two sides having different private keys
C21_Witness ==
    /\ tlsPc = "done"
    /\ Len(messageToSend) = 2
    /\ Len(encryptedPackage.ciphertext) = 3
    /\ encryptedPackage.ciphertext # Utf8Encode(messageToSend)
    /\ clientSession.clientPublicKey # serverStaticPublicKey
    /\ receivedMessage.value = messageToSend

\* C22: the client's line 'Verified server's digital certificate and
\* signature', which comes with its key derivation, is logged only after
\* the server's line 'Signed handshake messages with its private key'.
C22_SignedBeforeVerified ==
    tlsPc # "idle" =>
        \A i \in 1 .. Len(consoleLog) :
            consoleLog[i] = ClientVerifiedLine =>
                \E j \in 1 .. (i - 1) : consoleLog[j] = ServerSignedLine

\* how many places of the array hold v
Occurrences(array, v) == Cardinality({k \in 1 .. Len(array) : array[k] = v})

C23_Permutation ==
    ysPc # "idle" =>
        /\ Len(shuffleArray) = Len(shuffleInput)
        /\ \A v \in 1 .. MaxShuffleLen :
              Occurrences(shuffleArray, v) = Occurrences(shuffleInput, v)
        /\ \A c \in 1 .. Len(shuffleChoices) :
              /\ 0 <= shuffleChoices[c]
              /\ shuffleChoices[c] <= Len(shuffleInput) - c
        /\ ysPc = "done" =>
              /\ shuffleSwaps = (IF Len(shuffleInput) <= 1 THEN 0 ELSE Len(shuffleInput) - 1)
              /\ shuffleArray = yatesShuffle(shuffleInput, shuffleChoices)

C23_AboveUntouched ==
    ysPc = "loop" =>
        \A k \in (shuffle_i + 1) .. (Len(shuffleArray) - 1) :
            shuffleArray'[k + 1] = shuffleArray[k + 1]

\* C23: yatesShuffle leaves a permutation of the elements the array held,
\* makes exactly length - 1 swaps (none for a length of at most 1), chooses
\* at step i an index j with 0 <= j <= i, and never touches again a position
\* above i.
C23_ShuffleContract == []C23_Permutation /\ [][C23_AboveUntouched]_vars

\* an array of four elements, two of them equal, has been shuffled with
\* three swaps into another order
C23_Witness ==
    /\ ysPc = "done"
    /\ Len(shuffleInput) = 4
    /\ shuffleSwaps = 3
    /\ shuffleInput[1] = shuffleInput[2]
    /\ shuffleArray # shuffleInput

\* C24: for an array of n distinct elements, the map from the sequences of
\* choices (j at step n - 1, ..., j at step 1) to the orders of the array is
\* a bijection: different choices give different orders, and every order is
\* given by some choices.
C24_Unbiased ==
    (ysPc = "done" /\ shuffleInput \in DistinctArrays(Len(shuffleInput))) =>
        LET n == Len(shuffleInput)
            orders == {yatesShuffle(shuffleInput, choices) : choices \in ChoicesFrom(n - 1)}
        IN /\ shuffleChoices \in ChoicesFrom(n - 1)
           /\ Cardinality(orders) = Cardinality(ChoicesFrom(n - 1))
           /\ orders = DistinctArrays(n)

\* four distinct elements have been shuffled into the reverse order
C24_Witness ==
    /\ ysPc = "done"
    /\ shuffleInput = <<1, 2, 3, 4>>
    /\ shuffleArray = <<4, 3, 2, 1>>

\* C25: for every v in 0 .. 99 committed to as h = v * v and every
\* challenge in {0, 1}, the verifier accepts the response of the honest
\* prover.
C25_Completeness ==
    /\ zkPc \in {"challenge", "response", "verify", "done"} =>
          /\ prover.v \in 0 .. 99
          /\ prover.h = prover.v * prover.v
    /\ zkPc \in {"response", "verify", "done"} => verifier \in {0, 1}
    /\ zkPc = "done" => isProofValid = TRUE

\* the largest value has been committed to, the challenge was 1 and the
\* response v * 7 has been accepted
C25_Witness ==
    /\ zkPc = "done"
    /\ prover.v = 99
    /\ verifier = 1
    /\ response = 693
    /\ isProofValid = TRUE

\* the exponents x of 1 .. n - 1 with bb^x mod n = y
LogarithmsOf(bb, y, n) == {x \in 1 .. (n - 1) : PowerMod(bb, x, n) = y}

\* C26: solveDiscreteLogarithmBruteForce(g, y, p) returns the smallest x of
\* 1 .. p - 1 with g^x mod p = y, and null exactly when there is none; so
\* for y = g^a mod p with 1 <= a < p it returns an x with 1 <= x <= a; for
\* g = 5, y = 8, p = 23 it returns 6.
C26_SmallestLogarithm ==
    /\ dlPc = "done" =>
          LET logarithms == LogarithmsOf(dl_g, dl_y, dl_p)
          IN /\ (dl_x = null) <=> (logarithms = {})
             /\ dl_x # null =>
                   /\ dl_x \in logarithms
                   /\ \A x \in logarithms : dl_x <= x
             /\ \A e \in 1 .. (dl_p - 1) :
                   PowerMod(dl_g, e, dl_p) = dl_y => (dl_x # null /\ 1 <= dl_x /\ dl_x <= e)
             /\ (dl_g = 5 /\ dl_y = 8 /\ dl_p = 23) => dl_x = 6

\* the example has been solved: 5^6 mod 23 = 8, and 5^28 mod 23 = 8 as well
C26_Witness ==
    /\ dlPc = "done"
    /\ dl_g = 5
    /\ dl_y = 8
    /\ dl_p = 23
    /\ dl_x = 6
    /\ PowerMod(5, 28, 23) = 8

RECURSIVE QuotientAndRest(_, _)
\* the quotient (its digits, leading zeros included) and the remainder of
\* the division of a BigInt by a number n >= 1, digit by digit from the top
QuotientAndRest(digits, n) ==
    IF digits = <<>> THEN [quotient |-> <<>>, rest |-> 0]
    ELSE LET upper == QuotientAndRest(Tail(digits), n)
             current == upper.rest * LimbBase + Head(digits)
         IN [quotient |-> <<current \div n>> \o upper.quotient, rest |-> current % n]

\* value mod 2^32 for a BigInt: its two 16-bit halves put together
Mod2To32(value) ==
    LET low == QuotientAndRest(value, Half)
        high == QuotientAndRest(BigStrip(low.quotient), Half)
    IN BigAdd(BigMul(BigInt(high.rest), BigInt(Half)), BigInt(low.rest))

RECURSIVE WeightedSum(_, _)
\* the sum of input[i] * 31^(Len(input) - i) from place i on, exactly
WeightedSum(input, i) ==
    IF i > Len(input) THEN <<>>
    ELSE BigAdd(BigMul(BigInt(input[i]), BigPowBy(<<31>>, Len(input) - i)),
                WeightedSum(input, i + 1))

\* C27: simpleHash(s) lies in 0 .. 2^32 - 1 and is the sum of
\* charCode(s[i]) * 31^(len(s) - 1 - i) modulo 2^32; the same input gives
\* the same hash again, and simpleHash('') is 0.
C27_HashValue ==
    /\ shPc \in {"hash2", "hash3", "done"} =>
          /\ Mod2To32(hash1) = hash1
          /\ hash1 = Mod2To32(WeightedSum(message1, 1))
          /\ message1 = <<>> => hash1 = BigInt(0)
    /\ shPc \in {"hash3", "done"} =>
          /\ Mod2To32(hash2) = hash2
          /\ hash2 = Mod2To32(WeightedSum(message2, 1))
    /\ shPc = "done" => hash3 = hash1

\* "Hello, world!" has been hashed twice; the sum has wrapped around 2^32
C27_Witness ==
    /\ shPc = "done"
    /\ message1 = ScriptMessage1
    /\ WeightedSum(message1, 1) # hash1
    /\ hash1 = <<2741, 1492, 24>>
    /\ hash3 = <<2741, 1492, 24>>

\* C28 (as claimed; the code violates it): for every point P of the curve and
\* every k >= 0, the order of P and above included, scalarMultiply(k, P) is P
\* added to itself k times under the group law; scalarMultiply(0, P) is O and
\* scalarMultiply(1, P) is P.
C28_ScalarMultiple ==
    (smPc = "done" /\ IsOnCurve(sm_P)) =>
        /\ smOutcome = "returned"
        /\ smValue = GroupMultiple(sm_k, sm_P)
        /\ sm_k = 0 => smValue = O
        /\ sm_k = 1 => smValue = sm_P

\* C29 (as claimed; the code violates it): G is on the curve, and for P, Q
\* on the curve or O, addPoints(P, Q) is O or a point of the curve with
\* coordinates in 0 .. p - 1.
C29_Closure ==
    /\ IsOnCurve(G) /\ G # O
    /\ addPc = "done" => IsOnCurve(add_R)

C30_Levels ==
    padPc \in {"buildExtended", "done"} =>
        LET tree == padBuilt.tree
        IN /\ padBlocks = <<>> => (tree = <<>> /\ padBuilt.root = <<>>)
           /\ padBlocks # <<>> =>
                 /\ Len(tree[Len(tree)]) = 1
                 /\ padBuilt.root = tree[Len(tree)][1]
                 /\ \A l \in 1 .. (Len(tree) - 1) : Len(tree[l]) % 2 = 0
           /\ (padPc = "done" /\ Len(padBlocks) >= 3 /\ Len(padBlocks) % 2 = 1) =>
                 /\ padExtendedBuilt.root = padBuilt.root
                 /\ padExtendedBuilt.tree = padBuilt.tree

\* C30: an odd level of more than one node is padded in place with a copy of
\* its last node: every level of the returned tree but the root level has
\* even length and the root level has length 1; for an odd number n >= 3 of
\* blocks the root is the root of the list with the last block appended
\* again; the caller's list is not modified; buildMerkleTree([]) returns
\* {tree: [], root: ''}.
C30_OddLevelPadding == []C30_Levels /\ [][padBlocks' = padBlocks]_vars

\* a tree has been built from three blocks: its leaf level holds four nodes,
\* the last two equal, and the list of four blocks gives the same root
C30_Witness ==
    /\ padPc = "done"
    /\ Len(padBlocks) = 3
    /\ padBlocks[2] # padBlocks[3]
    /\ Len(padBuilt.tree[1]) = 4
    /\ padBuilt.tree[1][3] = padBuilt.tree[1][4]
    /\ padExtendedBuilt.root = padBuilt.root

====
